---- MODULE Spec2Model ----
(***************************************************************************)
(* Trust processing core of fedservice (OpenID Federation):                *)
(*   - entity_statement/constraints.py : max_path_length and naming        *)
(*     constraints of a trust chain (meets_restrictions)                   *)
(*   - entity/function/verifier.py     : TrustChainVerifier                *)
(*   - entity/function/trust_mark_verifier.py : TrustMarkVerifier          *)
(*   - entity/server/resolve.py        : Resolve.process_request           *)
(*   - entity/trust_marks_source.py    : TrustMarksFromABFile              *)
(*   - message.py                      : EntityStatement.verify,           *)
(*     Policy.verify                                                       *)
(*   - entity/__init__.py              : FederationEntity's trust chain    *)
(*     cache and chain selection                                           *)
(*                                                                         *)
(* An entity identifier / URL is a record [scheme, rest] where rest is the *)
(* text after the scheme, kept as the sequence of its dot-separated parts  *)
(* (what str.split('.') gives); a leading dot shows as a leading "" part.  *)
(***************************************************************************)
EXTENDS Integers, Sequences, FiniteSets, TLC

VARIABLES
    \* ---- meets_restrictions (constraints.py) ----
    mr_chain,                  \* the trust_chain argument, anchor first, leaf last
    mr_i,                      \* number of statements of trust_chain[:-1] walked
    current_max_path_length,   \* local of meets_restrictions
    assigned,                  \* local _assigned of meets_restrictions
    naming_constraints,        \* local of meets_restrictions
    mr_pc,                     \* "loop" | "leaf" | "done" | "off"
    mr_result,                 \* "none" | "True" | "False" | "KeyError"
    mr_seen,                   \* per walked position: naming_constraints in force there
    mr_inforce,                \* per walked position: max_path_length in force before it
    \* ---- TrustChainVerifier (verifier.py) ----
    keyjar,                    \* the entity's key jar: issuer -> key -> copies held
    trust_anchor,              \* TrustChainVerifier.trust_anchor (own list, may be empty)
    v_pc,                      \* "idle" | "returned": position of the caller of __call__
    v_chain,                   \* the chain argument of the running/last __call__
    v_out,                     \* what that call gave: [raised, chains]
    v_keyjar0,                 \* the key jar when that call started
    \* ---- TrustMarkVerifier (trust_mark_verifier.py) ----
    tm_mark,                   \* payload of the trust_mark argument
    tm_check_status,           \* the check_status argument
    tm_entity_id,              \* the entity_id argument ("" is the default)
    tm_status_active,          \* 'active' as the issuer's status endpoint tells it
    tm_pc,                     \* "verify" | "issuers" | "delegation" | "chains" |
                               \* "signature" | "done" | "off": position in __call__
    tm_result,                 \* "pending" | "None" | "mark" | "ValueError" | "TypeError"
    tm_stopped,                \* the step at which __call__ returned or raised
    tm_tas,                    \* trust_anchor_statement, once fetched
    tm_deleg_sig,              \* outcome of verify_signature on the delegation
    tm_chains,                 \* anchors of the chains get_verified_trust_chains gave
    \* ---- Resolve.process_request (resolve.py) ----
    rs_request,                \* the request: sub, trust_anchor, type ("" when absent)
    rs_pc,                     \* "collect" | "choose" | "marks" | "respond" | "done" | "off"
    rs_trust_chains,           \* _trust_chains after apply_policies
    rs_chosen,                 \* position of _chosen_chain in _trust_chains, 0 for None
    rs_metadata,               \* local metadata
    rs_verdicts,               \* per trust mark walked: what trust_mark_verifier gave
    rs_verified,               \* verified_trust_marks
    rs_result,                 \* "pending" | "response" | the exception raised
    rs_response,               \* the JWS in response_args
    \* ---- TrustMarksFromABFile (trust_marks_source.py) ----
    tms_store,                 \* the values of self.store, in the order items() yields them
    tms_by_issuer,             \* self.by_issuer
    tms_expected_sub,          \* self.sub or entity_id ("" when neither is given)
    tms_pc,                    \* "idle" | "returned" | "off"
    tms_out,                   \* what the last __call__ returned
    \* ---- EntityStatement.verify / Policy.verify (message.py) ----
    es_statement,              \* the statement: its extra claims, crit,
                               \* policy_language_crit and metadata_policy
    es_kwargs,                 \* known_extensions and known_policy_extensions
    es_called,                 \* the verify method called last, "" before any
    es_pc,                     \* "received" | "verified" | "off"
    es_result,                 \* "pending" | "ok" | the exception raised
    \* ---- FederationEntity (entity/__init__.py) ----
    fe_now,                    \* the current time
    fe_trust_chain,            \* self.trust_chain: entity_id -> chains stored, if any
    fe_stored,                 \* self.context.trust_chain[entity_id], in key order
    tr_priority,               \* self.context.tr_priority
    fe_pc,                     \* "idle" | "returned" | "off"
    fe_call,                   \* the method called last and its argument
    fe_out,                    \* what that call returned
    \* ---- more_specific / excluded / permitted called alone (constraints.py) ----
    ms_a,                      \* the arguments a and b, with their schemes
    ms_b,
    ms_pc,                     \* "given" | "returned" | "off"
    ms_result,                 \* "pending" | "True" | "False" | "ValueError"
    \* ---- trust_mark_type_to_abfile (script/trust_mark_type_to_abfile.py) ----
    ab_store,                  \* the AbstractFileSystem store: trust mark id -> issuer list
    ab_run,                    \* per run of the script: its arguments, locals and position
    ab_before,                 \* the store as the latest store.get found it
    \* ---- FileDB (trust_mark_entity/__init__.py) ----
    fdb_files,                 \* per trust_mark_type: the lines of its file, oldest first
    fdb_call,                  \* the method called last and its arguments
    fdb_out,                   \* what find returned: "none" | "True" | "False"
    \* ---- SimpleDB (trust_mark_entity/__init__.py) ----
    sdb_db,                    \* self._db: trust_mark_type -> what is held for it
    sdb_added,                 \* the (trust_mark_type, sub) pairs add was called with
    sdb_call,                  \* the method called last and its arguments
    sdb_out,                   \* "none" | "ok" | "True" | "False" | the exception raised
    \* ---- FederationEntity.verify_trust_mark (entity/__init__.py) ----
    vt_mark,                   \* payload of the trust_mark argument
    vt_check_with_issuer,      \* the check_with_issuer argument
    vt_chains,                 \* what get_trust_chains gives for the issuer of the mark
    vt_verifier,               \* what the trust mark verifier gives: "None" | "mark" | an exception
    vt_resp,                   \* the issuer's answer to the trust_mark_status request
    vt_pc,                     \* "called" | "done" | "off"
    vt_result                  \* "pending" | "None" | "mark" | the exception raised

vars == <<mr_chain, mr_i, current_max_path_length, assigned, naming_constraints,
          mr_pc, mr_result, mr_seen, mr_inforce,
          keyjar, trust_anchor, v_pc, v_chain, v_out, v_keyjar0,
          tm_mark, tm_check_status, tm_entity_id, tm_status_active,
          tm_pc, tm_result, tm_stopped, tm_tas, tm_deleg_sig, tm_chains,
          rs_request, rs_pc, rs_trust_chains, rs_chosen, rs_metadata, rs_verdicts,
          rs_verified, rs_result, rs_response,
          tms_store, tms_by_issuer, tms_expected_sub, tms_pc, tms_out,
          es_statement, es_kwargs, es_called, es_pc, es_result,
          fe_now, fe_trust_chain, fe_stored, tr_priority, fe_pc, fe_call, fe_out,
          ms_a, ms_b, ms_pc, ms_result,
          ab_store, ab_run, ab_before,
          fdb_files, fdb_call, fdb_out,
          sdb_db, sdb_added, sdb_call, sdb_out,
          vt_mark, vt_check_with_issuer, vt_chains, vt_verifier, vt_resp, vt_pc, vt_result>>

vt_vars == <<vt_mark, vt_check_with_issuer, vt_chains, vt_verifier, vt_resp, vt_pc, vt_result>>

sdb_vars == <<sdb_db, sdb_added, sdb_call, sdb_out>>

fdb_vars == <<fdb_files, fdb_call, fdb_out>>

ab_vars == <<ab_store, ab_run, ab_before>>

ms_vars == <<ms_a, ms_b, ms_pc, ms_result>>

fe_vars == <<fe_now, fe_trust_chain, fe_stored, tr_priority, fe_pc, fe_call, fe_out>>

es_vars == <<es_statement, es_kwargs, es_called, es_pc, es_result>>

tms_vars == <<tms_store, tms_by_issuer, tms_expected_sub, tms_pc, tms_out>>

rs_vars == <<rs_request, rs_pc, rs_trust_chains, rs_chosen, rs_metadata, rs_verdicts,
             rs_verified, rs_result, rs_response>>

v_vars == <<keyjar, trust_anchor, v_pc, v_chain, v_out, v_keyjar0>>

tm_vars == <<tm_mark, tm_check_status, tm_entity_id, tm_status_active,
             tm_pc, tm_result, tm_stopped, tm_tas, tm_deleg_sig, tm_chains>>

\* what __call__ is given; no step of it assigns these
tm_given == <<tm_mark, tm_check_status, tm_entity_id, tm_status_active>>

mr_vars == <<mr_chain, mr_i, current_max_path_length, assigned, naming_constraints,
             mr_pc, mr_result, mr_seen, mr_inforce>>

\* what the actions of one component leave alone
not_mr == <<v_vars, tm_vars, rs_vars, tms_vars, es_vars, fe_vars, ms_vars, ab_vars, fdb_vars, sdb_vars, vt_vars>>
not_v  == <<mr_vars, tm_vars, rs_vars, tms_vars, es_vars, fe_vars, ms_vars, ab_vars, fdb_vars, sdb_vars, vt_vars>>
not_tm == <<mr_vars, v_vars, rs_vars, tms_vars, es_vars, fe_vars, ms_vars, ab_vars, fdb_vars, sdb_vars, vt_vars>>
not_rs == <<mr_vars, v_vars, tm_vars, tms_vars, es_vars, fe_vars, ms_vars, ab_vars, fdb_vars, sdb_vars, vt_vars>>
not_tms == <<mr_vars, v_vars, tm_vars, rs_vars, es_vars, fe_vars, ms_vars, ab_vars, fdb_vars, sdb_vars, vt_vars>>
not_es == <<mr_vars, v_vars, tm_vars, rs_vars, tms_vars, fe_vars, ms_vars, ab_vars, fdb_vars, sdb_vars, vt_vars>>
not_fe == <<mr_vars, v_vars, tm_vars, rs_vars, tms_vars, es_vars, ms_vars, ab_vars, fdb_vars, sdb_vars, vt_vars>>
not_ms == <<mr_vars, v_vars, tm_vars, rs_vars, tms_vars, es_vars, fe_vars, ab_vars, fdb_vars, sdb_vars, vt_vars>>
not_ab == <<mr_vars, v_vars, tm_vars, rs_vars, tms_vars, es_vars, fe_vars, ms_vars, fdb_vars, sdb_vars, vt_vars>>
not_fdb == <<mr_vars, v_vars, tm_vars, rs_vars, tms_vars, es_vars, fe_vars, ms_vars, ab_vars, sdb_vars, vt_vars>>
not_sdb == <<mr_vars, v_vars, tm_vars, rs_vars, tms_vars, es_vars, fe_vars, ms_vars, ab_vars, fdb_vars, vt_vars>>
not_vt == <<mr_vars, v_vars, tm_vars, rs_vars, tms_vars, es_vars, fe_vars, ms_vars, ab_vars, fdb_vars, sdb_vars>>

----------------------------------------------------------------------------
(* Bounds *)

MaxLen == 3        \* longest chain given to meets_restrictions
MaxMpl == 2        \* largest max_path_length a statement carries

----------------------------------------------------------------------------
(* URLs *)

Url(parts) == [scheme |-> "https", rest |-> parts]

\* remove_scheme: the text after https:// or http://, split at the dots
\* (more_specific splits the result at once).
remove_scheme(url) == url.rest

RECURSIVE zip_compare(_, _, _)
\* the for loop of more_specific over zip(a_part, b_part), both reversed
zip_compare(ra, rb, k) ==
    IF k > Len(ra) \/ k > Len(rb) THEN TRUE
    ELSE IF ra[k] # rb[k] THEN rb[k] = ""
    ELSE zip_compare(ra, rb, k + 1)

Reverse(s) == [k \in 1..Len(s) |-> s[Len(s) + 1 - k]]

more_specific(a, b) ==
    LET a_part == remove_scheme(a)
        b_part == remove_scheme(b)
    IN  IF Len(a_part) >= Len(b_part)
        THEN zip_compare(Reverse(a_part), Reverse(b_part), 1)
        ELSE FALSE

excluded(subject_id, excluded_ids) ==
    \E k \in 1..Len(excluded_ids) : more_specific(subject_id, excluded_ids[k])

permitted(subject_id, permitted_id) ==
    \E k \in 1..Len(permitted_id) : more_specific(subject_id, permitted_id[k])

----------------------------------------------------------------------------
(* Constraints claim of a statement.                                       *)
(*   present  : the statement has a 'constraints' claim                    *)
(*   has_mpl  : the claim has 'max_path_length' (value mpl)                *)
(*   has_nc   : the claim has 'naming_constraints'                         *)
(*   has_perm / has_excl : naming_constraints has 'permitted'/'excluded'   *)

NoConstraints ==
    [present |-> FALSE, has_mpl |-> FALSE, mpl |-> 0, has_nc |-> FALSE,
     has_perm |-> FALSE, perm |-> <<>>, has_excl |-> FALSE, excl |-> <<>>]

Constraints(has_mpl, mpl, has_nc, has_perm, perm, has_excl, excl) ==
    [present |-> TRUE, has_mpl |-> has_mpl, mpl |-> mpl, has_nc |-> has_nc,
     has_perm |-> has_perm, perm |-> perm, has_excl |-> has_excl, excl |-> excl]

calculate_path_length_no_decrement(constraints, current, was_assigned) ==
    IF ~constraints.has_mpl THEN current - 1
    ELSE IF constraints.mpl >= 0
         THEN IF was_assigned
              THEN IF current < constraints.mpl THEN -1 ELSE constraints.mpl
              ELSE constraints.mpl
         ELSE -1

\* lines 12-28
calculate_path_length(constraints, current, was_assigned) ==
    IF ~constraints.has_mpl THEN current - 1
    ELSE IF constraints.mpl >= 0
         THEN IF was_assigned
              THEN IF current - 1 < constraints.mpl THEN -1 ELSE constraints.mpl
              ELSE constraints.mpl
         ELSE -1

\* lines 73-77: the entries that replace _old, or _old when nothing replaced it
replaced_or_kept(repl, old_e) == IF repl # <<>> THEN repl ELSE <<old_e>>

RECURSIVE update_specs(_, _)
\* for each old entry: the new entries more specific than it, or itself if none
update_specs(new_constraints, old_constraints) ==
    IF old_constraints = <<>> THEN <<>>
    ELSE replaced_or_kept(
             SelectSeq(new_constraints,
                       LAMBDA new_e : more_specific(new_e, Head(old_constraints))),
             Head(old_constraints))
         \o update_specs(new_constraints, Tail(old_constraints))

\* One key ('permitted' or 'excluded') of add_constraints.
\* [err, val]: err is the KeyError of new_constraints[key] on an absent key.
add_constraints_key(has_new, new, old) ==
    IF old = <<>>
    THEN [err |-> FALSE, val |-> IF has_new /\ new # <<>> THEN new ELSE old]
    ELSE IF ~has_new THEN [err |-> TRUE, val |-> old]
    ELSE IF new = <<>> THEN [err |-> FALSE, val |-> old]
    ELSE [err |-> FALSE, val |-> update_specs(new, old)]

\* naming constraints in force: None and [] are both "not set" (<<>>)
both_keys(p, e) == [err |-> p.err \/ e.err, permitted |-> p.val, excluded |-> e.val]

add_constraints(nc_new, nc) ==
    both_keys(add_constraints_key(nc_new.has_perm, nc_new.perm, nc.permitted),
              add_constraints_key(nc_new.has_excl, nc_new.excl, nc.excluded))

update_naming_constraints(constraints, nc) ==
    IF ~constraints.has_nc
    THEN [err |-> FALSE, permitted |-> nc.permitted, excluded |-> nc.excluded]
    ELSE add_constraints(constraints, nc)

\* the two naming checks meets_restrictions makes on a subject
naming_ok(sub, nc) ==
    /\ ~(nc.excluded # <<>> /\ excluded(sub, nc.excluded))
    /\ ~(nc.permitted # <<>> /\ ~permitted(sub, nc.permitted))

----------------------------------------------------------------------------
(* meets_restrictions, one loop iteration at a time *)

NoNaming == [permitted |-> <<>>, excluded |-> <<>>]

\* lines 147-160 on the values lines 140-150 computed: cur is the new
\* current_max_path_length, upd the outcome of update_naming_constraints
mr_checks(st, statement, cur, upd) ==
    [current  |-> cur,
     assigned |-> st.assigned \/ statement.constraints.present,
     nc       |-> IF cur < 0 \/ upd.err THEN st.nc
                  ELSE [permitted |-> upd.permitted, excluded |-> upd.excluded],
     status   |-> IF cur < 0 THEN "False"
                  ELSE IF upd.err THEN "KeyError"
                  ELSE IF ~naming_ok(statement.sub, upd) THEN "False"
                  ELSE "run"]

\* Body of `for statement in trust_chain[:-1]` on the locals
\* st = [current, assigned, nc]; status "run" means the loop goes on.
mr_body(st, statement) ==
    mr_checks(st, statement,
              IF statement.constraints.present
              THEN calculate_path_length(statement.constraints, st.current, st.assigned)
              ELSE st.current,
              update_naming_constraints(statement.constraints, st.nc))

mr_leaf_unchecked(st, statement) == "True"

\* "Now check the leaf entity"
mr_leaf(st, statement) ==
    IF naming_ok(statement.sub, st.nc) THEN "True" ELSE "False"

mr_start == [current |-> 0, assigned |-> FALSE, nc |-> NoNaming, status |-> "run"]

RECURSIVE mr_walk(_, _, _)
mr_walk(trust_chain, k, st) ==
    IF st.status # "run" THEN st.status
    ELSE IF k = Len(trust_chain) THEN mr_leaf(st, trust_chain[k])
    ELSE mr_walk(trust_chain, k + 1, mr_body(st, trust_chain[k]))

\* meets_restrictions(trust_chain) for a non-empty chain: "True", "False" or "KeyError"
meets_restrictions(trust_chain) == mr_walk(trust_chain, 1, mr_start)

MRLoopTo(nx) ==
    /\ current_max_path_length' = nx.current
    /\ assigned' = nx.assigned
    /\ naming_constraints' = nx.nc
    /\ mr_inforce' = Append(mr_inforce, [value |-> current_max_path_length,
                                         assigned |-> assigned])
    /\ mr_seen' = Append(mr_seen, nx.nc)
    /\ mr_i' = mr_i + 1
    /\ mr_pc' = IF nx.status # "run" THEN "done"
                ELSE IF mr_i + 1 = Len(mr_chain) - 1 THEN "leaf" ELSE "loop"
    /\ mr_result' = IF nx.status = "run" THEN "none" ELSE nx.status

\* one iteration of the loop over trust_chain[:-1]
MRLoop ==
    /\ mr_pc = "loop"
    /\ MRLoopTo(mr_body([current |-> current_max_path_length, assigned |-> assigned,
                         nc |-> naming_constraints], mr_chain[mr_i + 1]))
    /\ UNCHANGED <<mr_chain, not_mr>>

MRLeaf ==
    /\ mr_pc = "leaf"
    /\ mr_result' = mr_leaf([current |-> current_max_path_length, assigned |-> assigned,
                             nc |-> naming_constraints], mr_chain[Len(mr_chain)])
    /\ mr_pc' = "done"
    /\ UNCHANGED <<mr_chain, mr_i, current_max_path_length, assigned, naming_constraints,
                   mr_seen, mr_inforce, not_mr>>

----------------------------------------------------------------------------
(* TrustChainVerifier *)

\* The federation: a trust anchor, an intermediate, a leaf
TA == Url(<<"ta", "org">>)
IM == Url(<<"im", "org">>)
RP == Url(<<"rp", "org">>)
Entities == {TA, IM, RP}

\* Keys. "kx" is another key that carries the kid of the intermediate's key.
Keys == {"kta", "kim", "krp", "kx"}
Kid(k) == IF k = "kx" THEN "kid-im" ELSE
          IF k = "kta" THEN "kid-ta" ELSE
          IF k = "kim" THEN "kid-im" ELSE "kid-rp"

\* trust_chain_collector.trust_anchors (anchor id -> pinned jwks): its ids
collector_trust_anchors == {TA}

NoKeys == [k \in Keys |-> 0]
Held(kj, issuer) == {k \in Keys : kj[issuer][k] > 0}

\* KeyJar.get_jwt_verify_keys: the keys held for the payload's iss whose kid is
\* the kid of the JWS header (the kid of the key the statement says it is signed with)
get_jwt_verify_keys(kj, statement) ==
    {k \in Held(kj, statement.iss) : Kid(k) = Kid(statement.signer)}

trusted_anchor_collector_only(own, statement) ==
    statement.iss \in collector_trust_anchors

\* TrustChainVerifier.trusted_anchor: the own list when set, else the collector's
trusted_anchor(own, statement) ==
    IF own # {} THEN statement.iss \in own
    ELSE statement.iss \in collector_trust_anchors

add_all_keys(kj, sub, jwks_keys) ==
    [e \in Entities |-> [k \in Keys |->
        IF e = sub /\ k \in jwks_keys THEN kj[e][k] + 1 ELSE kj[e][k]]]

\* lines 88-103: the keys of the statement's jwks not yet held for its sub are added
add_new_keys(kj, sub, jwks_keys) ==
    LET old == Held(kj, sub)
        new == {k \in jwks_keys : k \notin old}
    IN  [e \in Entities |-> [k \in Keys |->
            IF e = sub /\ k \in new THEN kj[e][k] + 1 ELSE kj[e][k]]]

\* lines 107-110: what _verify_trust_chain returns after its loop
verify_result(kj, verified_entity_statement, ok) ==
    [raised |-> IF ok = "KeyError" THEN "KeyError" ELSE "",
     chain  |-> IF ok = "True" THEN verified_entity_statement ELSE <<>>,
     keyjar |-> kj]

verify_end(kj, verified_entity_statement) ==
    verify_result(kj, verified_entity_statement,
                  IF verified_entity_statement = <<>> THEN "False"
                  ELSE meets_restrictions(verified_entity_statement))

verify_one_no_missing_key(es, n, kj, verified_entity_statement) ==
    LET keys == get_jwt_verify_keys(kj, es)
    IN  IF es.signer \notin keys THEN "BadSignature"
        ELSE IF ~es.jwks.has /\ Len(verified_entity_statement) # n THEN "ValueError"
        ELSE ""

\* lines 68-105: one statement of the loop; "" when the statement is verified
verify_one(es, n, kj, verified_entity_statement) ==
    LET keys == get_jwt_verify_keys(kj, es)
    IN  IF keys = {} THEN "MissingKey"
        ELSE IF es.signer \notin keys THEN "BadSignature"
        ELSE IF ~es.jwks.has /\ Len(verified_entity_statement) # n THEN "ValueError"
        ELSE ""

\* lines 82-103: the key jar after a statement; unchanged when it raised
keyjar_after(es, kj, err) ==
    IF err = "" /\ es.jwks.has THEN add_new_keys(kj, es.sub, es.jwks.keys) ELSE kj

RECURSIVE verify_walk(_, _, _, _, _)
\* the for loop of _verify_trust_chain from statement k on; err is what the
\* statement before raised
verify_walk(entity_statement_list, k, kj, verified_entity_statement, err) ==
    IF err # ""
    THEN [raised |-> err, chain |-> <<>>, keyjar |-> kj]
    ELSE IF k > Len(entity_statement_list)
    THEN verify_end(kj, verified_entity_statement)
    ELSE verify_walk(entity_statement_list, k + 1,
                     keyjar_after(entity_statement_list[k], kj,
                                  verify_one(entity_statement_list[k],
                                             Len(entity_statement_list) - 1, kj,
                                             verified_entity_statement)),
                     Append(verified_entity_statement, entity_statement_list[k]),
                     verify_one(entity_statement_list[k],
                                Len(entity_statement_list) - 1, kj,
                                verified_entity_statement))

_verify_trust_chain(entity_statement_list, kj) ==
    verify_walk(entity_statement_list, 1, kj, <<>>, "")

\* lines 47-49: a raise ends the call; a non-empty verified chain is appended
scan_add(res, r) ==
    [raised |-> r.raised,
     res    |-> IF r.raised # "" THEN <<>>
                ELSE IF r.chain # <<>> THEN Append(res, r.chain) ELSE res,
     keyjar |-> r.keyjar]

RECURSIVE verify_scan(_, _, _, _)
\* the loop of verify_trust_chain, i running from the last statement to the first;
\* acc = [raised, res, keyjar] is what the iterations before left
verify_scan(own, entity_statement_list, i, acc) ==
    IF i = 0 \/ acc.raised # "" THEN acc
    ELSE verify_scan(own, entity_statement_list, i - 1,
             IF trusted_anchor(own, entity_statement_list[i])
             THEN scan_add(acc.res,
                           _verify_trust_chain(
                               SubSeq(entity_statement_list, i, Len(entity_statement_list)),
                               acc.keyjar))
             ELSE acc)

verify_trust_chain(own, entity_statement_list, kj) ==
    verify_scan(own, entity_statement_list, Len(entity_statement_list),
                [raised |-> "", res |-> <<>>, keyjar |-> kj])

RECURSIVE expires_walk(_, _, _)
expires_walk(trust_chain, k, exp) ==
    IF k > Len(trust_chain) THEN exp
    ELSE expires_walk(trust_chain, k + 1,
                      IF exp >= 0
                      THEN IF trust_chain[k].exp < exp THEN trust_chain[k].exp ELSE exp
                      ELSE trust_chain[k].exp)

trust_chain_expires_at(trust_chain) == expires_walk(trust_chain, 1, -1)

iss_path_not_reversed(verified_trust_chain) ==
    [k \in 1..Len(verified_trust_chain) |-> verified_trust_chain[k].iss]

\* lines 142-145: the issuers, then reversed
iss_path_of(verified_trust_chain) ==
    Reverse([k \in 1..Len(verified_trust_chain) |-> verified_trust_chain[k].iss])

\* lines 137-147: the TrustChain built for one verified chain
TrustChain(verified_trust_chain, chain) ==
    [exp            |-> trust_chain_expires_at(verified_trust_chain),
     verified_chain |-> verified_trust_chain,
     anchor         |-> verified_trust_chain[1].iss,
     iss_path       |-> iss_path_of(verified_trust_chain),
     chain          |-> chain]

\* TrustChainVerifier.__call__: None is chains = <<>> with nothing raised
trust_chains_of(v, chain) ==
    [raised |-> v.raised,
     chains |-> [k \in 1..Len(v.res) |-> TrustChain(v.res[k], chain)],
     keyjar |-> v.keyjar]

verifier_call(own, chain, kj) == trust_chains_of(verify_trust_chain(own, chain, kj), chain)

\* Entity statements the peers of the federation serve
Jwks(ks) == [has |-> TRUE, keys |-> ks]
NoJwks == [has |-> FALSE, keys |-> {}]
MaxPath0 == Constraints(TRUE, 0, FALSE, FALSE, <<>>, FALSE, <<>>)

ES(iss, sub, exp, signer, jwks, c) ==
    [iss |-> iss, sub |-> sub, exp |-> exp, signer |-> signer, jwks |-> jwks,
     constraints |-> c]

\* exp is in seconds since 1970-01-01; -1 is an exp before that
Statements ==
    { ES(TA, TA, 3, "kta", Jwks({"kta"}), NoConstraints),      \* TA configuration
      ES(TA, IM, 3, "kta", Jwks({"kim"}), NoConstraints),      \* TA about IM
      ES(TA, IM, -1, "kta", Jwks({"kim"}), NoConstraints),     \* the same, exp before 1970
      ES(TA, IM, 2, "kta", Jwks({"kim"}), MaxPath0),           \* the same, path limited
      ES(IM, IM, 2, "kim", Jwks({"kim", "kx"}), NoConstraints),\* IM configuration
      ES(IM, RP, 1, "kim", Jwks({"krp"}), NoConstraints),      \* IM about RP
      ES(IM, RP, 2, "kx", Jwks({"krp"}), NoConstraints),       \* signed with kx
      ES(IM, RP, 2, "kim", NoJwks, NoConstraints),             \* without jwks
      ES(RP, RP, 2, "krp", Jwks({"krp"}), NoConstraints),      \* RP configuration
      ES(RP, RP, 3, "krp", NoJwks, NoConstraints) }            \* the same, no jwks

CandidateChains == UNION { [1..k -> Statements] : k \in 1..MaxLen }

NoOut == [raised |-> "", chains |-> <<>>]

\* __call__(chain) runs to its end (return or raise)
CallTo(r) ==
    /\ keyjar' = r.keyjar
    /\ v_out' = [raised |-> r.raised, chains |-> r.chains]

Call(chain) ==
    /\ v_pc = "idle"
    /\ CallTo(verifier_call(trust_anchor, chain, keyjar))
    /\ v_chain' = chain
    /\ v_keyjar0' = keyjar
    /\ v_pc' = "returned"
    /\ UNCHANGED <<trust_anchor, not_v>>

\* the caller is done with the result
Return ==
    /\ v_pc = "returned"
    /\ v_pc' = "idle"
    /\ v_chain' = <<>>
    /\ v_out' = NoOut
    /\ v_keyjar0' = keyjar
    /\ UNCHANGED <<keyjar, trust_anchor, not_v>>

\* A component that a specification does not run stays in these states
ConstraintsOff ==
    /\ mr_chain = <<>>
    /\ mr_i = 0
    /\ current_max_path_length = 0
    /\ assigned = FALSE
    /\ naming_constraints = NoNaming
    /\ mr_pc = "off"
    /\ mr_result = "none"
    /\ mr_seen = <<>>
    /\ mr_inforce = <<>>

VerifierOff ==
    /\ keyjar = [e \in Entities |-> NoKeys]
    /\ trust_anchor = {}
    /\ v_pc = "off"
    /\ v_chain = <<>>
    /\ v_out = NoOut
    /\ v_keyjar0 = keyjar

\* no JWS made
NoResponse == [made |-> FALSE]

ResolveOff ==
    /\ rs_request = [sub |-> "", trust_anchor |-> "", type |-> ""]
    /\ rs_pc = "off"
    /\ rs_trust_chains = <<>>
    /\ rs_chosen = 0
    /\ rs_metadata = <<>>
    /\ rs_verdicts = <<>>
    /\ rs_verified = <<>>
    /\ rs_result = "pending"
    /\ rs_response = NoResponse

TrustMarksSourceOff ==
    /\ tms_store = <<>>
    /\ tms_by_issuer = TRUE
    /\ tms_expected_sub = ""
    /\ tms_pc = "off"
    /\ tms_out = <<>>

\* a statement with the required claims only, and verify called with no arguments
NoStatement ==
    [extra |-> {}, has_crit |-> FALSE, crit |-> {},
     has_policy_language_crit |-> FALSE, policy_language_crit |-> {},
     metadata_policy |-> <<>>]

NotGiven == [given |-> FALSE, names |-> {}]

NoKwargs == [known_extensions |-> NotGiven, known_policy_extensions |-> NotGiven]

MessageOff ==
    /\ es_statement = NoStatement
    /\ es_kwargs = NoKwargs
    /\ es_called = ""
    /\ es_pc = "off"
    /\ es_result = "pending"

NoCall == [method |-> "", entity_id |-> "", trust_chains |-> <<>>]

EntityOff ==
    /\ fe_now = 0
    /\ fe_trust_chain = <<>>
    /\ fe_stored = <<>>
    /\ tr_priority = <<>>
    /\ fe_pc = "off"
    /\ fe_call = NoCall
    /\ fe_out = <<>>

MoreSpecificOff ==
    /\ ms_a = ""
    /\ ms_b = ""
    /\ ms_pc = "off"
    /\ ms_result = "pending"

ScriptOff ==
    /\ ab_store = <<>>
    /\ ab_run = <<>>
    /\ ab_before = <<>>

FileDBOff ==
    /\ fdb_files = <<>>
    /\ fdb_call = <<>>
    /\ fdb_out = "none"

SimpleDBOff ==
    /\ sdb_db = <<>>
    /\ sdb_added = {}
    /\ sdb_call = <<>>
    /\ sdb_out = "none"

VerifyTrustMarkOff ==
    /\ vt_mark = <<>>
    /\ vt_check_with_issuer = FALSE
    /\ vt_chains = <<>>
    /\ vt_verifier = ""
    /\ vt_resp = <<>>
    /\ vt_pc = "off"
    /\ vt_result = "pending"

----------------------------------------------------------------------------
(* TrustMarkVerifier.__call__, step by step *)

TMI   == "https://tmi.example.org"     \* a trust mark issuer
TMO   == "https://tmo.example.org"     \* the owner of a trust mark type
TMX   == "https://other.example.org"   \* an entity the anchor names nowhere
TrustMarkIds == {"sirtfi", "mushroom"}
TM_TA  == "https://ta.example.org"     \* the trust_anchor argument
TM_TA2 == "https://2nd.ta.example.org"

NoDelegation ==
    [has |-> FALSE, iss |-> "", sub |-> "", trust_mark_id |-> "", expired |-> FALSE]

Delegations ==
    {NoDelegation} \cup
    [has : {TRUE}, iss : {TMO, TMX}, sub : {TMI, TMX},
     trust_mark_id : TrustMarkIds, expired : BOOLEAN]

\* Payload of a trust mark; expired: exp is set and has passed
TrustMarks ==
    [iss : {TMI, TMX}, sub : {"https://rp.example.org"}, trust_mark_id : TrustMarkIds,
     expired : BOOLEAN, delegation : Delegations]

\* The entity_id argument: the default, the mark's subject, another entity
EntityIdArguments == {"", "https://rp.example.org", TMX}

\* An entry of trust_mark_issuers: absent, or the list of issuers
NoEntry == [has |-> FALSE, issuers |-> <<>>]
IssuerEntries == {NoEntry} \cup [has : {TRUE}, issuers : {<<>>, <<TMI>>}]
\* An entry of trust_mark_owners: absent, or {sub, jwks}
OwnerEntries == [has : BOOLEAN, sub : {TMO}]

\* The trust anchor's entity configuration, as far as the verifier reads it.
\* trust_mark_owners absent and {} are read alike (line 81-82): all entries absent.
TrustAnchorStatements ==
    [has_issuers : BOOLEAN,
     trust_mark_issuers : [TrustMarkIds -> IssuerEntries],
     trust_mark_owners : [TrustMarkIds -> OwnerEntries]]

NotFetched ==
    [fetched |-> FALSE, has_issuers |-> FALSE,
     trust_mark_issuers |-> [t \in TrustMarkIds |-> NoEntry],
     trust_mark_owners |-> [t \in TrustMarkIds |-> [has |-> FALSE, sub |-> TMO]]]

Fetched(tas) ==
    [fetched |-> TRUE, has_issuers |-> tas.has_issuers,
     trust_mark_issuers |-> tas.trust_mark_issuers,
     trust_mark_owners |-> tas.trust_mark_owners]

\* kwargs.get("entity_id") of a verify() call that passes no entity_id
NoEntityId == "None"

\* TrustMark.verify (message.py 610-635) as __call__ lines 51-59 see it:
\* "ok", "Expired" (caught: return None) or "ValueError" (raised again)
trust_mark_verify(mark, entity_id) ==
    IF entity_id # NoEntityId /\ entity_id # mark.sub THEN "WrongSubject"
    ELSE IF mark.expired THEN "Expired"
    ELSE IF ~mark.delegation.has THEN "ok"
    ELSE IF mark.delegation.expired THEN "Expired"
    ELSE IF mark.iss # mark.delegation.sub THEN "ValueError"
    ELSE IF mark.trust_mark_id # mark.delegation.trust_mark_id THEN "ValueError"
    ELSE "ok"

InSeq(x, q) == \E k \in 1..Len(q) : q[k] = x

issuer_recognized_nonempty_only(tas, mark) ==
    /\ tas.has_issuers
    /\ tas.trust_mark_issuers[mark.trust_mark_id].has
    /\ InSeq(mark.iss, tas.trust_mark_issuers[mark.trust_mark_id].issuers)

\* lines 66-78: FALSE where __call__ returns None
issuer_recognized(tas, mark) ==
    /\ tas.has_issuers
    /\ tas.trust_mark_issuers[mark.trust_mark_id].has
    /\ \/ tas.trust_mark_issuers[mark.trust_mark_id].issuers = <<>>
       \/ InSeq(mark.iss, tas.trust_mark_issuers[mark.trust_mark_id].issuers)

delegator_check_any_owner(tas, mark) ==
    IF \A t \in TrustMarkIds : ~tas.trust_mark_owners[t].has THEN "None"
    ELSE IF ~tas.trust_mark_owners[mark.trust_mark_id].has THEN "TypeError"
    ELSE "ok"

\* lines 81-94 up to the signature check: "ok", "None" or "TypeError"
\* (_owners.get gives None for a type without owner, and None["sub"] raises)
delegator_check(tas, mark) ==
    IF \A t \in TrustMarkIds : ~tas.trust_mark_owners[t].has THEN "None"
    ELSE IF ~tas.trust_mark_owners[mark.trust_mark_id].has THEN "TypeError"
    ELSE IF tas.trust_mark_owners[mark.trust_mark_id].sub # mark.delegation.iss THEN "None"
    ELSE "ok"

TMStop(step, result) ==
    /\ tm_pc' = "done"
    /\ tm_result' = result
    /\ tm_stopped' = step

TMGoOn(next) ==
    /\ tm_pc' = next
    /\ UNCHANGED <<tm_result, tm_stopped>>

TMVerifyTo_unchecked(outcome) == TMGoOn("issuers")

TMVerifyTo(outcome) ==
    IF outcome = "ok" THEN TMGoOn("issuers")
    ELSE TMStop("verify", IF outcome = "Expired" THEN "None" ELSE outcome)

\* lines 51-59; verify() is called without arguments
TMVerify ==
    /\ tm_pc = "verify"
    /\ TMVerifyTo(trust_mark_verify(tm_mark, NoEntityId))
    /\ UNCHANGED <<tm_given, tm_tas, tm_deleg_sig, tm_chains, not_tm>>

\* lines 61-78; get_verified_trust_anchor_statement gives the anchor's configuration
TMIssuers ==
    /\ tm_pc = "issuers"
    /\ \E tas \in TrustAnchorStatements :
          /\ tm_tas' = Fetched(tas)
          /\ IF issuer_recognized(tas, tm_mark)
             THEN TMGoOn(IF tm_mark.delegation.has THEN "delegation" ELSE "chains")
             ELSE TMStop("issuers", "None")
    /\ UNCHANGED <<tm_given, tm_deleg_sig, tm_chains, not_tm>>

TMDelegationTo(outcome, sig_ok) ==
    /\ IF outcome # "ok" THEN TMStop("delegation", outcome)
       ELSE IF ~sig_ok THEN TMStop("delegation", "None")
       ELSE TMGoOn("chains")
    /\ tm_deleg_sig' = IF outcome # "ok" THEN "untried"
                       ELSE IF sig_ok THEN "verified" ELSE "failed"

\* lines 80-94; verify_signature either gives the token or raises
TMDelegation ==
    /\ tm_pc = "delegation"
    /\ \E sig_ok \in BOOLEAN : TMDelegationTo(delegator_check(tm_tas, tm_mark), sig_ok)
    /\ UNCHANGED <<tm_given, tm_tas, tm_chains, not_tm>>

AnchorLists == {<<>>, <<TM_TA>>, <<TM_TA2>>, <<TM_TA2, TM_TA>>}

anchor_reached_any_chain(trust_anchor_arg, anchors) == anchors # <<>>

\* lines 100-106: FALSE where __call__ returns None
anchor_reached(trust_anchor_arg, anchors) ==
    anchors # <<>> /\ InSeq(trust_anchor_arg, anchors)

\* lines 98-106; get_verified_trust_chains gives the chains of the mark's issuer
TMChains ==
    /\ tm_pc = "chains"
    /\ \E anchors \in AnchorLists :
          /\ tm_chains' = [collected |-> TRUE, anchors |-> anchors]
          /\ IF anchor_reached(TM_TA, anchors)
             THEN TMGoOn("signature")
             ELSE TMStop("chains", "None")
    /\ UNCHANGED <<tm_given, tm_tas, tm_deleg_sig, not_tm>>

\* lines 108-126; verify_compact either gives the mark or raises
TMSignature ==
    /\ tm_pc = "signature"
    /\ \E sig_ok \in BOOLEAN : TMStop("signature", IF sig_ok THEN "mark" ELSE "None")
    /\ UNCHANGED <<tm_given, tm_tas, tm_deleg_sig, tm_chains, not_tm>>

NotCollected == [collected |-> FALSE, anchors |-> <<>>]

TrustMarkOff ==
    /\ tm_mark = CHOOSE m \in TrustMarks : TRUE
    /\ tm_check_status = FALSE
    /\ tm_entity_id = ""
    /\ tm_status_active = TRUE
    /\ tm_pc = "off"
    /\ tm_result = "pending"
    /\ tm_stopped = ""
    /\ tm_tas = NotFetched
    /\ tm_deleg_sig = "untried"
    /\ tm_chains = NotCollected

InitTM ==
    /\ tm_mark \in TrustMarks
    /\ tm_check_status \in BOOLEAN
    /\ tm_entity_id \in EntityIdArguments
    /\ tm_status_active \in BOOLEAN
    /\ tm_pc = "verify"
    /\ tm_result = "pending"
    /\ tm_stopped = ""
    /\ tm_tas = NotFetched
    /\ tm_deleg_sig = "untried"
    /\ tm_chains = NotCollected
    /\ ConstraintsOff
    /\ VerifierOff
    /\ ResolveOff
    /\ TrustMarksSourceOff
    /\ MessageOff
    /\ EntityOff
    /\ MoreSpecificOff
    /\ ScriptOff
    /\ FileDBOff
    /\ SimpleDBOff
    /\ VerifyTrustMarkOff

NextTM == TMVerify \/ TMIssuers \/ TMDelegation \/ TMChains \/ TMSignature

SpecTM == InitTM /\ [][NextTM]_vars

\* The key jar holds the pinned keys of the collector's trust anchors; the
\* verifier's own list names entity ids only, whose keys may or may not be held.
Init ==
    /\ trust_anchor \in {{}, {IM}}
    /\ \E im_keys \in {{}, {"kim"}} :
          keyjar = [e \in Entities |-> [k \in Keys |->
                       IF (e = TA /\ k = "kta") \/ (e = IM /\ k \in im_keys)
                       THEN 1 ELSE 0]]
    /\ v_pc = "idle"
    /\ v_chain = <<>>
    /\ v_out = NoOut
    /\ v_keyjar0 = keyjar
    /\ ConstraintsOff
    /\ TrustMarkOff
    /\ ResolveOff
    /\ TrustMarksSourceOff
    /\ MessageOff
    /\ EntityOff
    /\ MoreSpecificOff
    /\ ScriptOff
    /\ FileDBOff
    /\ SimpleDBOff
    /\ VerifyTrustMarkOff

Next == (\E chain \in CandidateChains : Call(chain)) \/ Return

Spec == Init /\ [][Next]_vars

----------------------------------------------------------------------------
(* Chains given to meets_restrictions *)

DotA == Url(<<"", "a", "com">>)      \* https://.a.com
BA   == Url(<<"b", "a", "com">>)     \* https://b.a.com
CA   == Url(<<"c", "a", "com">>)     \* https://c.a.com
XOrg == Url(<<"x", "org">>)          \* https://x.org

Subjects == {BA, CA, XOrg}

NamingOnly(has_perm, perm, has_excl, excl) ==
    Constraints(FALSE, 0, TRUE, has_perm, perm, has_excl, excl)

NamingClaims ==
    { NamingOnly(TRUE, <<DotA>>, FALSE, <<>>),
      NamingOnly(TRUE, <<BA>>, FALSE, <<>>),
      NamingOnly(FALSE, <<>>, TRUE, <<DotA>>),
      NamingOnly(FALSE, <<>>, TRUE, <<BA>>) }

\* constraints claims that vary max_path_length only
PathConstraints ==
    {NoConstraints, Constraints(FALSE, 0, FALSE, FALSE, <<>>, FALSE, <<>>)}
    \cup { Constraints(TRUE, m, FALSE, FALSE, <<>>, FALSE, <<>>) : m \in -1..MaxMpl }

\* constraints claims that vary naming_constraints, alone or next to max_path_length
NamingConstraints ==
    {NoConstraints} \cup NamingClaims
    \cup { [n EXCEPT !.has_mpl = TRUE, !.mpl = MaxMpl] : n \in NamingClaims }

CStmt(sub, c) == [sub |-> sub, constraints |-> c]

PathStatements   == { CStmt(XOrg, c) : c \in PathConstraints }
NamingStatements == { CStmt(s, c) : s \in Subjects, c \in NamingConstraints }
LeafStatements   == { CStmt(s, NoConstraints) : s \in Subjects }

SeqsUpTo(S, n) == UNION { [1..k -> S] : k \in 0..n }

ConstraintChains ==
    { upper \o <<leaf>> :
        upper \in SeqsUpTo(PathStatements, MaxLen - 1) \cup SeqsUpTo(NamingStatements, MaxLen - 1),
        leaf \in LeafStatements }

InitCons ==
    /\ mr_chain \in ConstraintChains
    /\ mr_i = 0
    /\ current_max_path_length = 0
    /\ assigned = FALSE
    /\ naming_constraints = NoNaming
    /\ mr_pc = IF Len(mr_chain) > 1 THEN "loop" ELSE "leaf"
    /\ mr_result = "none"
    /\ mr_seen = <<>>
    /\ mr_inforce = <<>>
    /\ VerifierOff
    /\ TrustMarkOff
    /\ ResolveOff
    /\ TrustMarksSourceOff
    /\ MessageOff
    /\ EntityOff
    /\ MoreSpecificOff
    /\ ScriptOff
    /\ FileDBOff
    /\ SimpleDBOff
    /\ VerifyTrustMarkOff

NextCons == MRLoop \/ MRLeaf

SpecCons == InitCons /\ [][NextCons]_vars

----------------------------------------------------------------------------
(* Resolve.process_request, step by step *)

MaxChains == 2     \* most verified trust chains of the subject
MaxMarks == 2      \* most trust marks in the leaf's entity configuration

RS_SUB  == "https://rp.example.org"     \* request['sub']
RS_SELF == "https://ta.example.org"     \* the resolver's own entity_id

MetadataTypes == {"federation_entity", "openid_relying_party"}

\* request['type']: absent (""), a type the subject has, a type it has not
ResolveRequests ==
    [sub : {RS_SUB}, trust_anchor : {TM_TA, TM_TA2},
     type : {"", "openid_relying_party", "openid_provider"}]

\* A trust mark of the leaf's configuration; has_type: its payload carries the
\* claim trust_mark_type
LeafTrustMarks == [jws : {"tm-a", "tm-b"}, has_type : BOOLEAN]

\* A verified trust chain after apply_policies: the metadata is the leaf's with the
\* policies of the chain of this anchor applied
ResolveChain(anchor, marks) ==
    [anchor      |-> anchor,
     iss_path    |-> <<RS_SUB, anchor>>,
     metadata    |-> [t \in MetadataTypes |-> <<t, anchor>>],
     trust_marks |-> marks]

\* the verified chains of one subject: every chain ends in the same leaf configuration
ResolveChainLists ==
    { [k \in 1..Len(anchors) |-> ResolveChain(anchors[k], marks)] :
        anchors \in SeqsUpTo({TM_TA, TM_TA2}, MaxChains),
        marks \in SeqsUpTo(LeafTrustMarks, MaxMarks) }

chosen_chain_first(trust_chains, trust_anchor_arg) ==
    IF trust_chains = <<>> THEN 0 ELSE 1

\* lines 40-44: position of the first chain anchored at _trust_anchor, 0 for None
chosen_chain(trust_chains, trust_anchor_arg) ==
    LET at == {k \in 1..Len(trust_chains) : trust_chains[k].anchor = trust_anchor_arg}
    IN  IF at = {} THEN 0 ELSE CHOOSE k \in at : \A j \in at : k <= j

\* lines 46-49: [err, metadata]; _chosen_chain.metadata on None raises AttributeError
request_metadata(request, trust_chains, chosen) ==
    IF chosen = 0 THEN [err |-> "AttributeError", metadata |-> <<>>]
    ELSE IF request.type = "" THEN [err |-> "", metadata |-> trust_chains[chosen].metadata]
    ELSE IF request.type \notin DOMAIN trust_chains[chosen].metadata
         THEN [err |-> "KeyError", metadata |-> <<>>]
         ELSE [err |-> "", metadata |-> [t \in {request.type} |->
                                            trust_chains[chosen].metadata[t]]]

\* what a call of trust_mark_verifier ends with (tm_result of its steps)
TrustMarkVerdicts == {"mark", "None", "ValueError", "TypeError"}

\* trust_chain_collector.get_chain(iss_path, trust_anchor, with_ta_ec): the
\* statements along iss_path up to trust_anchor
get_chain(iss_path, trust_anchor_arg) == [iss_path |-> iss_path, anchor |-> trust_anchor_arg]

\* create.py 10-37: a JWT signed by iss, header typ entity-statement+jwt
create_entity_statement(iss, sub, msg) ==
    [made |-> TRUE, header |-> [typ |-> "entity-statement+jwt"], signer |-> iss,
     payload |-> [iss |-> iss, sub |-> sub, msg |-> msg]]

\* create.py 40-71: msg gets metadata when it is not empty, then the kwargs
create_entity_configuration(iss, metadata, trust_chain, args) ==
    create_entity_statement(iss, iss,
        [has_metadata    |-> metadata # <<>>,
         metadata        |-> metadata,
         trust_chain     |-> trust_chain,
         has_trust_marks |-> args # <<>>,
         trust_marks     |-> args])

RSStop(result) ==
    /\ rs_pc' = "done"
    /\ rs_result' = result

\* lines 29-38: collect_trust_chains, verify_trust_chains, apply_policies
RSCollect ==
    /\ rs_pc = "collect"
    /\ rs_trust_chains' \in ResolveChainLists
    /\ rs_pc' = "choose"
    /\ UNCHANGED <<rs_request, rs_chosen, rs_metadata, rs_verdicts, rs_verified,
                   rs_result, rs_response, not_rs>>

RSMetadataTo(chosen, md) ==
    IF md.err # "" THEN RSStop(md.err) /\ UNCHANGED rs_metadata
    ELSE /\ rs_metadata' = md.metadata
         /\ rs_pc' = IF rs_trust_chains[chosen].trust_marks = <<>>
                     THEN "respond" ELSE "marks"
         /\ UNCHANGED rs_result

RSChooseTo(chosen) ==
    /\ rs_chosen' = chosen
    /\ RSMetadataTo(chosen, request_metadata(rs_request, rs_trust_chains, chosen))

\* lines 40-49
RSChoose ==
    /\ rs_pc = "choose"
    /\ RSChooseTo(chosen_chain(rs_trust_chains, rs_request.trust_anchor))
    /\ UNCHANGED <<rs_request, rs_trust_chains, rs_verdicts, rs_verified, rs_response, not_rs>>

verified_after_unchecked(verified, mark, verdict) == Append(verified, mark.jws)

\* lines 56-60: the mark is appended when the verifier gave a mark
verified_after(verified, mark, verdict) ==
    IF verdict = "mark" THEN Append(verified, mark.jws) ELSE verified

RSMarkTo(mark, verdict, last) ==
    /\ rs_verdicts' = Append(rs_verdicts, [trust_anchor |-> rs_request.trust_anchor,
                                           verdict |-> verdict])
    /\ IF verdict \notin {"mark", "None"} THEN RSStop(verdict) /\ UNCHANGED rs_verified
       ELSE IF verdict = "mark" /\ ~mark.has_type
            THEN RSStop("KeyError") /\ UNCHANGED rs_verified
       ELSE /\ rs_verified' = verified_after(rs_verified, mark, verdict)
            /\ rs_pc' = IF last THEN "respond" ELSE "marks"
            /\ UNCHANGED rs_result

\* lines 53-60: one iteration over the trust marks of the leaf's configuration
RSMark ==
    /\ rs_pc = "marks"
    /\ \E verdict \in TrustMarkVerdicts :
          RSMarkTo(rs_trust_chains[rs_chosen].trust_marks[Len(rs_verdicts) + 1], verdict,
                   Len(rs_verdicts) + 1 = Len(rs_trust_chains[rs_chosen].trust_marks))
    /\ UNCHANGED <<rs_request, rs_trust_chains, rs_chosen, rs_metadata, rs_response, not_rs>>

\* lines 62-76
RSRespond ==
    /\ rs_pc = "respond"
    /\ rs_response' = create_entity_configuration(RS_SELF, rs_metadata,
                          get_chain(rs_trust_chains[rs_chosen].iss_path,
                                    rs_request.trust_anchor),
                          rs_verified)
    /\ RSStop("response")
    /\ UNCHANGED <<rs_request, rs_trust_chains, rs_chosen, rs_metadata, rs_verdicts,
                   rs_verified, not_rs>>

InitRes ==
    /\ rs_request \in ResolveRequests
    /\ rs_pc = "collect"
    /\ rs_trust_chains = <<>>
    /\ rs_chosen = 0
    /\ rs_metadata = <<>>
    /\ rs_verdicts = <<>>
    /\ rs_verified = <<>>
    /\ rs_result = "pending"
    /\ rs_response = NoResponse
    /\ ConstraintsOff
    /\ VerifierOff
    /\ TrustMarkOff
    /\ TrustMarksSourceOff
    /\ MessageOff
    /\ EntityOff
    /\ MoreSpecificOff
    /\ ScriptOff
    /\ FileDBOff
    /\ SimpleDBOff
    /\ VerifyTrustMarkOff

NextRes == RSCollect \/ RSChoose \/ RSMark \/ RSRespond

SpecRes == InitRes /\ [][NextRes]_vars

----------------------------------------------------------------------------
(* TrustMarksFromABFile.__call__ *)

MaxStore == 3      \* most entries in the store

Now == 10          \* _now
Leeway == 2        \* self.leeway

TmtType  == "https://trust/type"
TmtOther == "https://trust/other"
IssA == "https://issuer.example/a"
IssB == "https://issuer.example/b"
SubEntity == "entity"

\* A value of the store with its trust mark's payload. jws "" : no trust_mark;
\* outer : the stored trust_mark_type ("" when none); a claim that is "" is absent.
StoredMark(jws, outer, tmt, iss, sub, iat, has_exp, exp) ==
    [jws |-> jws, malformed |-> FALSE, outer |-> outer, trust_mark_type |-> tmt,
     iss |-> iss, sub |-> sub, has_iat |-> TRUE, iat |-> iat,
     has_exp |-> has_exp, exp |-> exp]

StoredMarks ==
    { StoredMark("older",          TmtType, TmtType, IssA, SubEntity, 7, TRUE, 13),
      StoredMark("newer_expiring", TmtType, TmtType, IssA, SubEntity, 9, TRUE, 12),
      StoredMark("newer_no_exp",   TmtType, TmtType, IssA, SubEntity, 9, FALSE, 0),
      StoredMark("between",        "",      TmtType, IssA, SubEntity, 8, TRUE, 14),
      StoredMark("second_issuer",  TmtType, TmtType, IssB, SubEntity, 9, TRUE, 14),
      StoredMark("other_type",     TmtOther, TmtOther, IssB, SubEntity, 8, TRUE, 14),
      StoredMark("expired",        TmtType, TmtType, IssA, SubEntity, 9, TRUE, 10),
      StoredMark("future",         TmtType, TmtType, IssA, SubEntity, 13, FALSE, 0),
      StoredMark("other_sub",      TmtType, TmtType, IssA, "someone", 9, FALSE, 0),
      StoredMark("type_mismatch",  TmtOther, TmtType, IssA, SubEntity, 9, FALSE, 0),
      StoredMark("no_exp_issuer_b", TmtType, TmtType, IssB, SubEntity, 9, FALSE, 0),
      StoredMark("no_iss",         TmtType, TmtType, "", SubEntity, 9, FALSE, 0),
      [StoredMark("malformed",     TmtType, TmtType, IssA, SubEntity, 9, FALSE, 0)
           EXCEPT !.malformed = TRUE] }

skip_reason_no_sub_check(v, expected_sub) ==
    IF v.jws = "" THEN "missing_trust_mark"
    ELSE IF v.malformed THEN "malformed"
    ELSE IF v.trust_mark_type = "" \/ v.iss = "" \/ v.sub = "" \/ ~v.has_iat
         THEN "missing_required_claims"
    ELSE IF v.outer # "" /\ v.outer # v.trust_mark_type THEN "type_mismatch"
    ELSE IF v.iat > Now + Leeway THEN "iat_in_future"
    ELSE IF v.has_exp /\ v.exp <= Now THEN "expired"
    ELSE ""

\* lines 69-148: why the entry is skipped, "" when it is not
skip_reason(v, expected_sub) ==
    IF v.jws = "" THEN "missing_trust_mark"
    ELSE IF v.malformed THEN "malformed"
    ELSE IF v.trust_mark_type = "" \/ v.iss = "" \/ v.sub = "" \/ ~v.has_iat
         THEN "missing_required_claims"
    ELSE IF v.outer # "" /\ v.outer # v.trust_mark_type THEN "type_mismatch"
    ELSE IF expected_sub # "" /\ v.sub # expected_sub THEN "sub_mismatch"
    ELSE IF v.iat > Now + Leeway THEN "iat_in_future"
    ELSE IF v.has_exp /\ v.exp <= Now THEN "expired"
    ELSE ""

\* line 150
group_of(v, by_issuer) == <<v.trust_mark_type, IF by_issuer THEN v.iss ELSE "">>

Groups == {TmtType, TmtOther} \X {IssA, IssB, ""}

NoBest == [has |-> FALSE, trust_mark_type |-> "", trust_mark |-> "", iat |-> 0,
           has_exp |-> FALSE, exp |-> 0]

\* _exp_rank(x) > _exp_rank(y), a missing exp ranking as infinity
exp_rank_greater(x, y) ==
    IF ~x.has_exp THEN y.has_exp ELSE y.has_exp /\ x.exp > y.exp

replaces_newest_only(v, cur) == ~cur.has \/ v.iat > cur.iat

\* lines 153-157
replaces(v, cur) ==
    \/ ~cur.has
    \/ v.iat > cur.iat
    \/ (v.iat = cur.iat /\ exp_rank_greater(v, cur))

\* lines 158-163
best_entry(v) ==
    [has |-> TRUE, trust_mark_type |-> v.trust_mark_type, trust_mark |-> v.jws,
     iat |-> v.iat, has_exp |-> v.has_exp, exp |-> v.exp]

\* lines 69-169 for one entry: _best after it
best_after(best, v, g, skip) ==
    IF skip = "" /\ replaces(v, best[g])
    THEN [h \in Groups |-> IF h = g THEN best_entry(v) ELSE best[h]]
    ELSE best

RECURSIVE best_walk(_, _, _, _, _)
\* the loop over self.store.items()
best_walk(store, k, best, by_issuer, expected_sub) ==
    IF k > Len(store) THEN best
    ELSE best_walk(store, k + 1,
                   best_after(best, store[k], group_of(store[k], by_issuer),
                              skip_reason(store[k], expected_sub)),
                   by_issuer, expected_sub)

\* the strings of the model in the order Python compares them
SortedStrings == <<"", IssA, IssB, TmtOther, TmtType>>
StrRank(x) == CHOOSE k \in 1..Len(SortedStrings) : SortedStrings[k] = x

\* g <= h for tuples of two strings
KeyLeq(g, h) ==
    \/ StrRank(g[1]) < StrRank(h[1])
    \/ (g[1] = h[1] /\ StrRank(g[2]) <= StrRank(h[2]))

RECURSIVE sorted(_)
sorted(keys) ==
    IF keys = {} THEN <<>>
    ELSE LET first == CHOOSE g \in keys : \A h \in keys : KeyLeq(g, h)
         IN  <<first>> \o sorted(keys \ {first})

\* lines 174-179
out_of(best, keys) ==
    [k \in 1..Len(keys) |-> [trust_mark_type |-> best[keys[k]].trust_mark_type,
                             trust_mark |-> best[keys[k]].trust_mark]]

best_keys(best) == sorted({g \in Groups : best[g].has})

trust_marks_from_abfile(store, by_issuer, expected_sub) ==
    out_of(best_walk(store, 1, [g \in Groups |-> NoBest], by_issuer, expected_sub),
           best_keys(best_walk(store, 1, [g \in Groups |-> NoBest], by_issuer,
                               expected_sub)))

\* a trust mark is written to the directory the store reads
TMSStore(v) ==
    /\ tms_pc = "idle"
    /\ Len(tms_store) < MaxStore
    /\ \A k \in 1..Len(tms_store) : tms_store[k] # v
    /\ tms_store' = Append(tms_store, v)
    /\ UNCHANGED <<tms_by_issuer, tms_expected_sub, tms_pc, tms_out, not_tms>>

\* __call__(entity_id)
TMSCall ==
    /\ tms_pc = "idle"
    /\ tms_out' = trust_marks_from_abfile(tms_store, tms_by_issuer, tms_expected_sub)
    /\ tms_pc' = "returned"
    /\ UNCHANGED <<tms_store, tms_by_issuer, tms_expected_sub, not_tms>>

\* the caller is done with the list
TMSReturn ==
    /\ tms_pc = "returned"
    /\ tms_pc' = "idle"
    /\ tms_out' = <<>>
    /\ UNCHANGED <<tms_store, tms_by_issuer, tms_expected_sub, not_tms>>

InitTMS ==
    /\ tms_store = <<>>
    /\ tms_by_issuer \in BOOLEAN
    /\ tms_expected_sub \in {"", SubEntity}
    /\ tms_pc = "idle"
    /\ tms_out = <<>>
    /\ ConstraintsOff
    /\ VerifierOff
    /\ TrustMarkOff
    /\ ResolveOff
    /\ MessageOff
    /\ EntityOff
    /\ MoreSpecificOff
    /\ ScriptOff
    /\ FileDBOff
    /\ SimpleDBOff
    /\ VerifyTrustMarkOff

NextTMS == (\E v \in StoredMarks : TMSStore(v)) \/ TMSCall \/ TMSReturn

SpecTMS == InitTMS /\ [][NextTMS]_vars

----------------------------------------------------------------------------
(* EntityStatement.verify and Policy.verify (message.py).                  *)
(* A statement is kept as the claims it carries beyond c_param (extra),    *)
(* its crit and policy_language_crit lists (as sets, with a flag when the  *)
(* claim is absent) and its metadata_policy, the sequence of its policies, *)
(* each the set of verbs it uses beyond the seven of Policy.c_param. The   *)
(* statement has the required claims and carries no trust marks, issuers   *)
(* or owners, so that the other checks of verify pass.                     *)

MaxPolicies == 2    \* most policies in a metadata_policy

\* "foo" and "bar" are claims c_param does not define, "regexp" and "scope_of"
\* verbs Policy.c_param does not define
NativeClaim == "jti"                   \* a claim c_param defines

Given(names) == [given |-> TRUE, names |-> names]
\* the truth value of an optional list
Truthy(list) == list.given /\ list.names # {}

\* lines 378-393
Policy_verify(policy, policy_language_crit, known_policy_extensions) ==
    IF policy = {} THEN "ok"
    ELSE IF ~policy_language_crit.given THEN "ok"
    ELSE IF policy_language_crit.names = {} THEN "ValueError"
    ELSE IF Truthy(known_policy_extensions)
         THEN IF (policy_language_crit.names \cap policy)
                     \subseteq known_policy_extensions.names
              THEN "ok" ELSE "UnknownCriticalExtension"
         ELSE "UnknownCriticalExtension"

RECURSIVE MetadataPolicy_verify(_, _, _, _)
RECURSIVE policy_step(_, _, _, _, _)
\* lines 416-420: the policies in turn, the first exception ending the walk
MetadataPolicy_verify(metadata_policy, k, policy_language_crit, known) ==
    IF k > Len(metadata_policy) THEN "ok"
    ELSE policy_step(Policy_verify(metadata_policy[k], policy_language_crit, known),
                     metadata_policy, k, policy_language_crit, known)

policy_step(r, metadata_policy, k, policy_language_crit, known) ==
    IF r # "ok" THEN r
    ELSE MetadataPolicy_verify(metadata_policy, k + 1, policy_language_crit, known)

\* lines 524-538
crit_check(extra, has_crit, crit, known_extensions) ==
    IF extra = {} THEN "ok"
    ELSE IF ~has_crit THEN "ok"
    ELSE IF crit = {} THEN "ValueError"
    ELSE IF Truthy(known_extensions)
         THEN IF (crit \cap extra) \subseteq known_extensions.names
              THEN "ok" ELSE "UnknownCriticalExtension"
         ELSE "UnknownCriticalExtension"

\* lines 540-544
policy_check(st, kwargs) ==
    IF st.metadata_policy # <<>> /\ st.has_policy_language_crit
           /\ st.policy_language_crit # {}
    THEN MetadataPolicy_verify(st.metadata_policy, 1,
                               Given(st.policy_language_crit),
                               kwargs.known_policy_extensions)
    ELSE "ok"

\* lines 521-544
EntityStatement_verify(r, st, kwargs) ==
    IF r # "ok" THEN r ELSE policy_check(st, kwargs)

PolicySeqs ==
    UNION {[1..n -> {{}, {"regexp"}, {"regexp", "scope_of"}}] : n \in 0..MaxPolicies}

EntityStatements ==
    [extra : {{}, {"foo"}, {"foo", "bar"}},
     has_crit : {TRUE},
     crit : {{}, {"foo"}, {"bar"}, {NativeClaim}, {"foo", "bar"}, {"foo", NativeClaim}},
     has_policy_language_crit : {TRUE},
     policy_language_crit : {{}, {"regexp"}, {"scope_of"}},
     metadata_policy : PolicySeqs]
    \cup
    [extra : {{}, {"foo"}, {"foo", "bar"}},
     has_crit : {FALSE},
     crit : {{}},
     has_policy_language_crit : {FALSE},
     policy_language_crit : {{}},
     metadata_policy : PolicySeqs]

Kwargs ==
    [known_extensions : {NotGiven, Given({}), Given({"foo"})},
     known_policy_extensions : {NotGiven, Given({}), Given({"regexp"})}]

\* the caller verifies the statement
ESVerify ==
    /\ es_pc = "received"
    /\ es_called' = "EntityStatement.verify"
    /\ es_result' = EntityStatement_verify(
                        crit_check(es_statement.extra, es_statement.has_crit,
                                   es_statement.crit, es_kwargs.known_extensions),
                        es_statement, es_kwargs)
    /\ es_pc' = "verified"
    /\ UNCHANGED <<es_statement, es_kwargs, not_es>>

\* the caller verifies the first policy of the statement on its own, with the
\* statement's policy_language_crit
PolicyVerify ==
    /\ es_pc = "received"
    /\ es_statement.metadata_policy # <<>>
    /\ es_called' = "Policy.verify"
    /\ es_result' = Policy_verify(es_statement.metadata_policy[1],
                                  [given |-> es_statement.has_policy_language_crit,
                                   names |-> es_statement.policy_language_crit],
                                  es_kwargs.known_policy_extensions)
    /\ es_pc' = "verified"
    /\ UNCHANGED <<es_statement, es_kwargs, not_es>>

InitMsg ==
    /\ es_statement \in EntityStatements
    /\ es_kwargs \in Kwargs
    /\ es_called = ""
    /\ es_pc = "received"
    /\ es_result = "pending"
    /\ ConstraintsOff
    /\ VerifierOff
    /\ TrustMarkOff
    /\ ResolveOff
    /\ TrustMarksSourceOff
    /\ EntityOff
    /\ MoreSpecificOff
    /\ ScriptOff
    /\ FileDBOff
    /\ SimpleDBOff
    /\ VerifyTrustMarkOff

NextMsg == ESVerify \/ PolicyVerify

SpecMsg == InitMsg /\ [][NextMsg]_vars

----------------------------------------------------------------------------
(* FederationEntity (entity/__init__.py): the trust chains kept per entity *)
(* and the choice of one chain among several. A chain is kept as its       *)
(* anchor and its exp.                                                     *)

MaxTime == 3      \* the clock runs from 0 to MaxTime
MaxCached == 2    \* most chains in one list

FE_OP == "https://op.example.org"
FE_RP == "https://rp.example.org"
FEEntities == {FE_OP, FE_RP}

FEChains == [anchor : {TM_TA, TM_TA2}, exp : {1, MaxTime}]
FEChainLists == UNION {[1..n -> FEChains] : n \in 0..MaxCached}

NotStored == [has |-> FALSE, chains |-> <<>>]
Stored(chains) == [has |-> TRUE, chains |-> chains]

\* lines 283-284
store_trust_chain(cache, entity_id, trust_chains) ==
    [e \in FEEntities |-> IF e = entity_id THEN Stored(trust_chains) ELSE cache[e]]

\* lines 272-281: [cache, out]; fresh is what get_verified_trust_chains gives
get_trust_chains(cache, entity_id, fresh) ==
    IF ~cache[entity_id].has
    THEN IF fresh # <<>>
         THEN [cache |-> store_trust_chain(cache, entity_id, fresh), out |-> fresh]
         ELSE [cache |-> cache, out |-> <<>>]
    ELSE [cache |-> cache, out |-> cache[entity_id].chains]

\* lines 296-299: the chain whose metadata is returned, <<>> for None
first_chain(trust_chains) ==
    IF trust_chains # <<>> THEN <<trust_chains[1]>> ELSE <<>>

\* lines 289-299: [cache, out]; out is the chain whose metadata is returned,
\* <<>> for None
get_verified_metadata(cache, entity_id, fresh) ==
    IF ~cache[entity_id].has
    THEN [cache |-> IF fresh # <<>> THEN store_trust_chain(cache, entity_id, fresh)
                    ELSE cache,
          out |-> first_chain(fresh)]
    ELSE [cache |-> cache, out |-> first_chain(cache[entity_id].chains)]

\* the chains get_verified_trust_chains can give at time now: none of them expired
Fresh(now) == {c \in FEChainLists : \A k \in 1..Len(c) : c[k].exp >= now}

FECalled(method, entity_id, trust_chains) ==
    /\ fe_call' = [method |-> method, entity_id |-> entity_id,
                   trust_chains |-> trust_chains]
    /\ fe_pc' = "returned"

FEReturn(r) ==
    /\ fe_trust_chain' = r.cache
    /\ fe_out' = r.out

\* time passes
FETick ==
    /\ fe_pc # "off"
    /\ fe_now < MaxTime
    /\ fe_now' = fe_now + 1
    /\ UNCHANGED <<fe_trust_chain, fe_stored, tr_priority, fe_pc, fe_call, fe_out, not_fe>>

FEGetTrustChains(entity_id) ==
    /\ fe_pc # "off"
    /\ \E fresh \in Fresh(fe_now) :
          FEReturn(get_trust_chains(fe_trust_chain, entity_id, fresh))
    /\ FECalled("get_trust_chains", entity_id, <<>>)
    /\ UNCHANGED <<fe_now, fe_stored, tr_priority, not_fe>>

FEGetVerifiedMetadata(entity_id) ==
    /\ fe_pc # "off"
    /\ \E fresh \in Fresh(fe_now) :
          FEReturn(get_verified_metadata(fe_trust_chain, entity_id, fresh))
    /\ FECalled("get_verified_metadata", entity_id, <<>>)
    /\ UNCHANGED <<fe_now, fe_stored, tr_priority, not_fe>>

\* a caller stores chains that are valid when it stores them
FEStoreTrustChain(entity_id, trust_chains) ==
    /\ fe_pc # "off"
    /\ trust_chains \in Fresh(fe_now)
    /\ fe_trust_chain' = store_trust_chain(fe_trust_chain, entity_id, trust_chains)
    /\ fe_out' = <<>>
    /\ FECalled("store_trust_chain", entity_id, trust_chains)
    /\ UNCHANGED <<fe_now, fe_stored, tr_priority, not_fe>>

InitFE ==
    /\ fe_now = 0
    /\ fe_trust_chain = [e \in FEEntities |-> NotStored]
    /\ fe_stored = <<>>
    /\ tr_priority = <<>>
    /\ fe_pc = "idle"
    /\ fe_call = NoCall
    /\ fe_out = <<>>
    /\ ConstraintsOff
    /\ VerifierOff
    /\ TrustMarkOff
    /\ ResolveOff
    /\ TrustMarksSourceOff
    /\ MessageOff
    /\ MoreSpecificOff
    /\ ScriptOff
    /\ FileDBOff
    /\ SimpleDBOff
    /\ VerifyTrustMarkOff

NextFE ==
    \/ FETick
    \/ \E entity_id \in FEEntities : FEGetTrustChains(entity_id)
    \/ \E entity_id \in FEEntities : FEGetVerifiedMetadata(entity_id)
    \/ \E entity_id \in FEEntities : \E trust_chains \in FEChainLists :
          FEStoreTrustChain(entity_id, trust_chains)

SpecFE == InitFE /\ [][NextFE]_vars

----------------------------------------------------------------------------
(* FederationEntity.pick_trust_chain and pick_from_stored_trust_chains.    *)
(* self.context.trust_chain[entity_id], a dict from anchor to chain, is    *)
(* kept as the sequence of its values in key order.                        *)

FE_TA3 == "https://3rd.ta.example.org"   \* an anchor no chain of the model ends at

FEAnchors == {TM_TA, TM_TA2, FE_TA3}

\* tr_priority: no list, or one or two anchors in order
Priorities ==
    UNION {{p \in [1..n -> FEAnchors] : \A a, b \in 1..n : a # b => p[a] # p[b]}
              : n \in 0..2}

StoredChains ==
    {c \in FEChainLists : \A a, b \in 1..Len(c) : a # b => c[a].anchor # c[b].anchor}

\* position of the first chain anchored at fid, 0 when there is none
RECURSIVE first_anchored(_, _, _)
first_anchored(trust_chains, fid, k) ==
    IF k > Len(trust_chains) THEN 0
    ELSE IF trust_chains[k].anchor = fid THEN k
    ELSE first_anchored(trust_chains, fid, k + 1)

RECURSIVE by_priority(_, _, _)
RECURSIVE by_priority_step(_, _, _, _)
\* lines 226-229, from the i-th entry of tr_priority on; 0 when the loops end
by_priority(trust_chains, priority, i) ==
    IF i > Len(priority) THEN 0
    ELSE by_priority_step(first_anchored(trust_chains, priority[i], 1),
                          trust_chains, priority, i)

by_priority_step(found, trust_chains, priority, i) ==
    IF found # 0 THEN found ELSE by_priority(trust_chains, priority, i + 1)

first_or_index_error(trust_chains, k) ==
    IF k # 0 THEN <<trust_chains[k]>>
    ELSE IF trust_chains = <<>> THEN "IndexError"
    ELSE <<trust_chains[1]>>

\* lines 213-233
pick_trust_chain(trust_chains, priority) ==
    IF Len(trust_chains) = 1 THEN <<trust_chains[1]>>
    ELSE first_or_index_error(trust_chains,
             IF priority # <<>> THEN by_priority(trust_chains, priority, 1) ELSE 0)

\* lines 235-245: the inner loop rebinds ta_id to the keys of the stored chains
\* and returns at its first round
pick_from_stored_trust_chains(stored, priority) ==
    IF Len(stored) = 1 THEN <<stored[1]>>
    ELSE first_or_index_error(stored,
             IF priority # <<>> /\ stored # <<>> THEN 1 ELSE 0)

FEPickTrustChain(trust_chains) ==
    /\ fe_pc # "off"
    /\ fe_out' = pick_trust_chain(trust_chains, tr_priority)
    /\ FECalled("pick_trust_chain", "", trust_chains)
    /\ UNCHANGED <<fe_now, fe_trust_chain, fe_stored, tr_priority, not_fe>>

FEPickFromStored ==
    /\ fe_pc # "off"
    /\ fe_out' = pick_from_stored_trust_chains(fe_stored, tr_priority)
    /\ FECalled("pick_from_stored_trust_chains", FE_OP, fe_stored)
    /\ UNCHANGED <<fe_now, fe_trust_chain, fe_stored, tr_priority, not_fe>>

InitPick ==
    /\ fe_now = 0
    /\ fe_trust_chain = [e \in FEEntities |-> NotStored]
    /\ fe_stored \in StoredChains
    /\ tr_priority \in Priorities
    /\ fe_pc = "idle"
    /\ fe_call = NoCall
    /\ fe_out = <<>>
    /\ ConstraintsOff
    /\ VerifierOff
    /\ TrustMarkOff
    /\ ResolveOff
    /\ TrustMarksSourceOff
    /\ MessageOff
    /\ MoreSpecificOff
    /\ ScriptOff
    /\ FileDBOff
    /\ SimpleDBOff
    /\ VerifyTrustMarkOff

NextPick ==
    \/ \E trust_chains \in FEChainLists : FEPickTrustChain(trust_chains)
    \/ FEPickFromStored

SpecPick == InitPick /\ [][NextPick]_vars

----------------------------------------------------------------------------
(* more_specific, excluded and permitted called on arbitrary URLs *)

MaxLabels == 3    \* most dot-separated parts of a URL

Labels == {"", "a", "org"}
LabelSeqs == UNION {[1..n -> Labels] : n \in 1..MaxLabels}
MSUrls == [scheme : {"https", "http", "ftp"}, rest : LabelSeqs]

\* lines 31-37: remove_scheme raises ValueError for any other scheme
has_http_scheme(url) == url.scheme \in {"https", "http"}

truth(b) == IF b THEN "True" ELSE "False"

\* lines 40-52 with the exception of remove_scheme
more_specific_call(a, b) ==
    IF ~has_http_scheme(a) \/ ~has_http_scheme(b) THEN "ValueError"
    ELSE truth(more_specific(a, b))

MSReturn(function, result) ==
    /\ ms_pc = "given"
    /\ ms_pc' = function
    /\ ms_result' = result
    /\ UNCHANGED <<ms_a, ms_b, not_ms>>

MSMoreSpecific == MSReturn("more_specific", more_specific_call(ms_a, ms_b))

\* lines 109-113, the list holding ms_b alone
MSExcluded ==
    MSReturn("excluded",
             IF ~has_http_scheme(ms_a) \/ ~has_http_scheme(ms_b) THEN "ValueError"
             ELSE truth(excluded(ms_a, <<ms_b>>)))

\* lines 116-120, the list holding ms_b alone
MSPermitted ==
    MSReturn("permitted",
             IF ~has_http_scheme(ms_a) \/ ~has_http_scheme(ms_b) THEN "ValueError"
             ELSE truth(permitted(ms_a, <<ms_b>>)))

InitMS ==
    /\ ms_a \in MSUrls
    /\ ms_b \in MSUrls
    /\ ms_pc = "given"
    /\ ms_result = "pending"
    /\ ConstraintsOff
    /\ VerifierOff
    /\ TrustMarkOff
    /\ ResolveOff
    /\ TrustMarksSourceOff
    /\ MessageOff
    /\ EntityOff
    /\ ScriptOff
    /\ FileDBOff
    /\ SimpleDBOff
    /\ VerifyTrustMarkOff

NextMS == MSMoreSpecific \/ MSExcluded \/ MSPermitted

SpecMS == InitMS /\ [][NextMS]_vars

----------------------------------------------------------------------------
(* Properties of meets_restrictions *)

Accepted == mr_pc = "done" /\ mr_result = "True"
RejectedAt(k) == mr_pc = "done" /\ mr_result = "False" /\ mr_i = k

\* entry covers subject: the parts of entry are a suffix of the parts of subject,
\* a leading empty part of entry standing for any remaining parts of subject
SuffixCovers(entry, subject) ==
    LET a == subject.rest
        b == entry.rest
    IN  /\ Len(a) >= Len(b)
        /\ \A k \in 1..Len(b) :
              \/ b[k] = a[Len(a) - Len(b) + k]
              \/ k = 1 /\ b[1] = ""

NamingRespected(subject, nc) ==
    /\ nc.permitted # <<>> =>
          \E k \in 1..Len(nc.permitted) : SuffixCovers(nc.permitted[k], subject)
    /\ \A k \in 1..Len(nc.excluded) : ~SuffixCovers(nc.excluded[k], subject)

\* C4: a chain meets_restrictions accepts has every subject, the leaf included,
\* covered by a permitted entry when the permitted set accumulated up to its
\* position is non-empty, and covered by no excluded entry accumulated up to it.
C4_NamingEnforced ==
    Accepted =>
        /\ \A k \in 1..(Len(mr_chain) - 1) : NamingRespected(mr_chain[k].sub, mr_seen[k])
        /\ NamingRespected(mr_chain[Len(mr_chain)].sub, naming_constraints)

C4_Witness ==
    /\ Accepted
    /\ Len(mr_chain) = 3
    /\ naming_constraints.permitted # <<>>
    /\ mr_seen[1].permitted # <<>>

\* value of max_path_length in force after statement k was walked
InForceAfter(k) == IF k < mr_i THEN mr_inforce[k + 1].value ELSE current_max_path_length
SetsMpl(k) == mr_chain[k].constraints.present /\ mr_chain[k].constraints.has_mpl
MplSetBefore(k) == \E j \in 1..(k - 1) : SetsMpl(j)

\* C5: the first max_path_length of a chain becomes the value in force; a later
\* statement whose max_path_length is not lower than the value in force when it is
\* reached gets the chain rejected there; a negative max_path_length gets the chain
\* rejected.
C5_PathLengthCeiling ==
    \A k \in 1..mr_i :
        SetsMpl(k) =>
            LET m == mr_chain[k].constraints.mpl
            IN  /\ m < 0 => RejectedAt(k)
                /\ (m >= 0 /\ ~MplSetBefore(k)) => InForceAfter(k) = m
                /\ (MplSetBefore(k) /\ m >= mr_inforce[k].value) => RejectedAt(k)
                /\ (MplSetBefore(k) /\ m >= 0 /\ m < mr_inforce[k].value /\ ~RejectedAt(k))
                       => InForceAfter(k) = m

C5_Witness ==
    /\ mr_i = 2
    /\ SetsMpl(1) /\ SetsMpl(2)
    /\ mr_chain[2].constraints.mpl = mr_inforce[2].value
    /\ mr_inforce[2].value > 0
    /\ RejectedAt(2)

\* C6 (as claimed): an accepted chain has, below every statement that sets
\* max_path_length = n, at most n further subordinate statements before the leaf.
C6_PathLengthCountsEveryStep ==
    Accepted =>
        \A k \in 1..(Len(mr_chain) - 1) :
            (SetsMpl(k) /\ mr_chain[k].constraints.mpl >= 0)
                => (Len(mr_chain) - 1 - k) <= mr_chain[k].constraints.mpl

----------------------------------------------------------------------------
(* Properties of TrustChainVerifier *)

Returned == v_pc = "returned"
Chains == {v_out.chains[k] : k \in 1..Len(v_out.chains)}
Issuers(statements) == [k \in 1..Len(statements) |-> statements[k].iss]
Last(q) == q[Len(q)]

\* the candidate list ends with a self-signed entity configuration (the leaf's)
EndsWithLeafConfiguration == Last(v_chain).iss = Last(v_chain).sub

\* C1: for a candidate list that ends with the leaf's entity configuration, every
\* TrustChain returned has iss_path[0] = the leaf's entity id, iss_path[-1] = anchor,
\* and iss_path = the issuers of verified_chain read from the leaf to the anchor.
C1_IssPath ==
    (Returned /\ EndsWithLeafConfiguration) =>
        \A tc \in Chains :
            /\ tc.iss_path[1] = Last(v_chain).sub
            /\ Last(tc.iss_path) = tc.anchor
            /\ Len(tc.iss_path) = Len(tc.verified_chain)
            /\ \A k \in 1..Len(tc.iss_path) :
                  tc.iss_path[k] = tc.verified_chain[Len(tc.verified_chain) + 1 - k].iss

C1_Witness ==
    /\ Returned /\ EndsWithLeafConfiguration
    /\ \E tc \in Chains : tc.iss_path = <<RP, IM, TA>>

SeqMin(q) == CHOOSE m \in {q[k] : k \in 1..Len(q)} : \A k \in 1..Len(q) : m <= q[k]

\* C2 (as claimed): every TrustChain returned has exp = the least exp of the
\* statements of its verified_chain.
C2_ExpIsMinimum ==
    Returned => \A tc \in Chains :
        tc.exp = SeqMin([k \in 1..Len(tc.verified_chain) |-> tc.verified_chain[k].exp])

\* the trust anchors the verifier recognizes
Recognized == IF trust_anchor # {} THEN trust_anchor ELSE collector_trust_anchors

\* C3: every verified chain begins with a statement issued by a recognized trust
\* anchor, and a candidate list without any statement issued by a recognized
\* anchor gives the empty result.
C3_AnchoredChains ==
    Returned =>
        /\ \A tc \in Chains : tc.verified_chain[1].iss \in Recognized
        /\ (\A k \in 1..Len(v_chain) : v_chain[k].iss \notin Recognized)
               => (v_out.chains = <<>> /\ v_out.raised = "")

C3_Witness ==
    /\ Returned
    /\ trust_anchor = {IM}
    /\ \E k \in 1..Len(v_chain) : v_chain[k].iss = TA
    /\ \E tc \in Chains : tc.verified_chain[1].iss = IM

C3_WitnessNone ==
    /\ Returned
    /\ trust_anchor = {}
    /\ Len(v_chain) = 2
    /\ \A k \in 1..Len(v_chain) : v_chain[k].iss \notin Recognized

\* some key held for the issuer of the statement carries the kid of its JWS header
KeyMatches(kj, statement) == \E k \in Keys : kj[statement.iss][k] > 0 /\ Kid(k) = Kid(statement.signer)
LastAnchored(k) ==
    /\ v_chain[k].iss \in Recognized
    /\ \A j \in (k + 1)..Len(v_chain) : v_chain[j].iss \notin Recognized

\* C7: a statement of a verified chain was verified with a key held in the key jar
\* for its issuer; a call that meets a statement no held key matches raises
\* MissingKey and gives no verified chain.
C7_KeysFromKeyjar ==
    Returned =>
        /\ \A tc \in Chains : \A k \in 1..Len(tc.verified_chain) :
              keyjar[tc.verified_chain[k].iss][tc.verified_chain[k].signer] > 0
        /\ v_out.raised = "MissingKey" =>
              /\ v_out.chains = <<>>
              /\ \E k \in 1..Len(v_chain) : ~KeyMatches(keyjar, v_chain[k])
        /\ \A k \in 1..Len(v_chain) :
              (LastAnchored(k) /\ ~KeyMatches(v_keyjar0, v_chain[k]))
                  => v_out.raised = "MissingKey"

\* a chain whose anchor statement verifies and whose leaf no held key matches
C7_Witness ==
    /\ Returned
    /\ v_out.raised = "MissingKey"
    /\ Len(v_chain) = 3
    /\ v_chain[1].iss = TA /\ KeyMatches(v_keyjar0, v_chain[1])

\* an anchor statement that no held key matches
C7_WitnessAnchor ==
    /\ Returned
    /\ \E k \in 1..Len(v_chain) : LastAnchored(k) /\ ~KeyMatches(v_keyjar0, v_chain[k])

\* C8: the keys held for a subject only grow, and a key already held for a
\* subject is not added again.
C8_KeyjarAppendOnly ==
    [][\A e \in Entities : \A k \in Keys :
          /\ keyjar'[e][k] >= keyjar[e][k]
          /\ keyjar[e][k] > 0 => keyjar'[e][k] = keyjar[e][k]]_vars

\* a call that published, for IM, a key already held (kim) and a new one (kx)
C8_Witness ==
    /\ Returned
    /\ v_keyjar0[IM]["kim"] = 1 /\ v_keyjar0[IM]["kx"] = 0
    /\ keyjar[IM]["kim"] = 1 /\ keyjar[IM]["kx"] = 1
    /\ keyjar[TA]["kta"] = 1

\* C9 (as claimed): __call__ never raises; a failing candidate is absent from the result
C9_NeverRaises == Returned => v_out.raised = ""

----------------------------------------------------------------------------
(* Properties of TrustMarkVerifier *)

IssuersEntry == tm_tas.trust_mark_issuers[tm_mark.trust_mark_id]
ReturnedNone == tm_pc = "done" /\ tm_result = "None"

\* C10: once the anchor's configuration is read, a mark whose trust_mark_id has no
\* trust_mark_issuers entry gives None, and so does a mark whose entry is a non-empty
\* list without the mark's iss; with an empty list the call does not end at the
\* issuer-recognition step.
C10_IssuerRecognition ==
    tm_tas.fetched =>
        /\ (~tm_tas.has_issuers \/ ~IssuersEntry.has) => ReturnedNone
        /\ (tm_tas.has_issuers /\ IssuersEntry.has /\ IssuersEntry.issuers # <<>>
              /\ ~InSeq(tm_mark.iss, IssuersEntry.issuers)) => ReturnedNone
        /\ (tm_tas.has_issuers /\ IssuersEntry.has /\ IssuersEntry.issuers = <<>>)
              => tm_stopped # "issuers"

\* a mark of an issuer the anchor does not name, verified under an empty list
C10_Witness ==
    /\ tm_tas.fetched /\ tm_tas.has_issuers
    /\ IssuersEntry.has /\ IssuersEntry.issuers = <<>>
    /\ tm_mark.iss = TMX
    /\ tm_pc = "done" /\ tm_result = "mark"

ReturnedMark == tm_pc = "done" /\ tm_result = "mark"
Owner == tm_tas.trust_mark_owners[tm_mark.trust_mark_id]

\* C11: a mark that carries a delegation is returned as verified only if its
\* trust_mark_id has an owner in the anchor's trust_mark_owners, the delegation's
\* iss is that owner's sub, the delegation's sub is the mark's iss, the delegation's
\* trust_mark_id is the mark's, and the delegation's signature verified with the
\* owner's jwks.
C11_DelegationChecked ==
    (ReturnedMark /\ tm_mark.delegation.has) =>
        /\ Owner.has
        /\ tm_mark.delegation.iss = Owner.sub
        /\ tm_mark.delegation.sub = tm_mark.iss
        /\ tm_mark.delegation.trust_mark_id = tm_mark.trust_mark_id
        /\ tm_deleg_sig = "verified"

C11_Witness == ReturnedMark /\ tm_mark.delegation.has /\ tm_mark.delegation.iss = TMO

\* C12: a mark is returned only if some verified trust chain of the mark's iss has
\* its anchor equal to the trust_anchor argument; when the chains were looked for
\* and there is none, or none ends at trust_anchor, the call returns None.
C12_ChainToAnchor ==
    /\ ReturnedMark => (tm_chains.collected /\ InSeq(TM_TA, tm_chains.anchors))
    /\ (tm_chains.collected /\ ~InSeq(TM_TA, tm_chains.anchors)) => ReturnedNone

C12_Witness ==
    /\ ReturnedNone
    /\ tm_chains.collected /\ tm_chains.anchors = <<TM_TA2>>

\* C13 (as claimed): __call__ ends with None or with the mark, it never raises.
C13_NoneOnFailure == tm_pc = "done" => tm_result \in {"None", "mark"}

\* C14 (as claimed): with check_status true the mark is returned only if the
\* issuer's status endpoint reports active = true for it.
C14_StatusChecked == (ReturnedMark /\ tm_check_status) => tm_status_active

\* C15 (as claimed): with a non-empty entity_id the mark is returned only if
\* entity_id is the mark's sub.
C15_EntityIdIsSub == (ReturnedMark /\ tm_entity_id # "") => tm_entity_id = tm_mark.sub

----------------------------------------------------------------------------
(* Properties of Resolve.process_request *)

Responded == rs_pc = "done" /\ rs_result = "response"
Msg == rs_response.payload.msg
NoChainToAnchor == \A k \in 1..Len(rs_trust_chains) :
                       rs_trust_chains[k].anchor # rs_request.trust_anchor

\* C16: a response is built from a verified chain whose anchor is the request's
\* trust_anchor: its metadata is that chain's (policies of that anchor applied), its
\* trust chain runs to that anchor, and every trust mark in it was verified against
\* that anchor.
C16_ChainOfRequestedAnchor ==
    Responded =>
        /\ rs_chosen \in 1..Len(rs_trust_chains)
        /\ rs_trust_chains[rs_chosen].anchor = rs_request.trust_anchor
        /\ \A t \in DOMAIN Msg.metadata :
              Msg.metadata[t] = rs_trust_chains[rs_chosen].metadata[t]
                 /\ Msg.metadata[t][2] = rs_request.trust_anchor
        /\ Msg.trust_chain.anchor = rs_request.trust_anchor
        /\ Msg.trust_chain.iss_path = rs_trust_chains[rs_chosen].iss_path
        /\ \A k \in 1..Len(rs_verdicts) :
              rs_verdicts[k].trust_anchor = rs_request.trust_anchor

\* a chain of another anchor comes first in the list
C16_Witness ==
    /\ Responded
    /\ rs_chosen = 2
    /\ rs_trust_chains[1].anchor # rs_request.trust_anchor
    /\ Len(rs_verdicts) > 0

\* C17 (as claimed): without a verified chain to the request's trust_anchor the
\* request ends with an empty response and nothing is raised.
C17_EmptyResponseWithoutChain ==
    (rs_pc = "done" /\ NoChainToAnchor) => rs_result = "response"

\* the trust marks of the leaf's configuration the verifier gave a mark for, in order
VerifiedMarks ==
    LET marks == rs_trust_chains[rs_chosen].trust_marks
        RECURSIVE pick(_)
        pick(k) == IF k > Len(marks) THEN <<>>
                   ELSE (IF rs_verdicts[k].verdict = "mark" THEN <<marks[k].jws>> ELSE <<>>)
                        \o pick(k + 1)
    IN  pick(1)

\* C18: the trust_marks of a response are exactly the trust marks of the leaf's
\* configuration for which the verifier, called with the request's trust_anchor,
\* returned a mark; when there is none, the response has no trust_marks claim.
C18_TrustMarksOfResponse ==
    Responded =>
        /\ Len(rs_verdicts) = Len(rs_trust_chains[rs_chosen].trust_marks)
        /\ \A k \in 1..Len(rs_verdicts) :
              rs_verdicts[k].trust_anchor = rs_request.trust_anchor
        /\ Msg.trust_marks = VerifiedMarks
        /\ Msg.has_trust_marks <=> VerifiedMarks # <<>>

C18_Witness ==
    /\ Responded
    /\ Len(rs_verdicts) = 2
    /\ rs_verdicts[1].verdict = "None" /\ rs_verdicts[2].verdict = "mark"
    /\ Msg.has_trust_marks

\* C19 (as claimed): the response is a signed JWT with header typ resolve-response+jwt
C19_ResolveResponseTyp ==
    Responded =>
        /\ rs_response.made /\ rs_response.signer = RS_SELF
        /\ rs_response.header.typ = "resolve-response+jwt"

----------------------------------------------------------------------------
(* Properties of TrustMarksFromABFile *)

TMSReturned == tms_pc = "returned"
\* positions of the stored entries that pass the filters
Passing == {k \in 1..Len(tms_store) : skip_reason(tms_store[k], tms_expected_sub) = ""}
GroupAt(k) == group_of(tms_store[k], tms_by_issuer)
PassingIn(g) == {k \in Passing : GroupAt(k) = g}
\* positions of the stored entries whose trust mark is the j-th of the output
StoredAs(j) == {k \in 1..Len(tms_store) : tms_store[k].jws = tms_out[j].trust_mark}
OutOf(g) == {j \in 1..Len(tms_out) : \E k \in StoredAs(j) : k \in PassingIn(g)}

\* entry k is one the claimed preference picks within its group
Preferred(k, g) ==
    /\ \A m \in PassingIn(g) : tms_store[m].iat <= tms_store[k].iat
    /\ \A m \in PassingIn(g) :
          tms_store[m].iat = tms_store[k].iat =>
              \/ ~tms_store[k].has_exp
              \/ (tms_store[m].has_exp /\ tms_store[m].exp <= tms_store[k].exp)

\* C20: the list returned has, for every group with a stored mark that passes the
\* filters, exactly one mark: a passing mark of the group with the greatest iat and,
\* among those, one without exp if there is one, else one with the greatest exp;
\* it has nothing else, and it is sorted by group key.
C20_NewestPerGroup ==
    TMSReturned =>
        /\ \A j \in 1..Len(tms_out) : \E k \in StoredAs(j) : k \in Passing
        /\ \A k \in Passing :
              /\ Cardinality(OutOf(GroupAt(k))) = 1
              /\ \A j \in OutOf(GroupAt(k)) :
                    /\ tms_out[j].trust_mark_type = GroupAt(k)[1]
                    /\ \E m \in StoredAs(j) :
                          m \in PassingIn(GroupAt(k)) /\ Preferred(m, GroupAt(k))
        /\ \A i, j \in 1..Len(tms_out) :
              i < j => \A k \in StoredAs(i) : \A m \in StoredAs(j) :
                          GroupAt(k) # GroupAt(m) /\ KeyLeq(GroupAt(k), GroupAt(m))

\* three marks of one (type, issuer) stored, the newest without exp returned
C20_Witness ==
    /\ TMSReturned
    /\ tms_by_issuer
    /\ {tms_store[k].jws : k \in 1..Len(tms_store)} =
           {"older", "newer_expiring", "newer_no_exp"}
    /\ tms_store[3].jws = "newer_expiring"
    /\ Len(tms_out) = 1 /\ tms_out[1].trust_mark = "newer_no_exp"

\* the filters of the claim, on a stored entry
OutMatchesOuter(v) == v.outer # "" => v.trust_mark_type = v.outer
SubAsExpected(v) == tms_expected_sub # "" => v.sub = tms_expected_sub
WellFormed(v) ==
    /\ v.jws # "" /\ ~v.malformed
    /\ v.trust_mark_type # "" /\ v.iss # "" /\ v.sub # "" /\ v.has_iat

\* C21: every mark returned is a stored, well-formed mark whose inner type is the
\* stored outer type when there is one, whose sub is the expected sub when one is
\* given, with iat <= now + leeway and exp absent or later than now; and the list
\* returned is the list the well-formed entries alone give.
C21_FiltersHold ==
    TMSReturned =>
        /\ \A j \in 1..Len(tms_out) : \E k \in StoredAs(j) :
              /\ WellFormed(tms_store[k])
              /\ OutMatchesOuter(tms_store[k])
              /\ SubAsExpected(tms_store[k])
              /\ tms_store[k].iat <= Now + Leeway
              /\ ~tms_store[k].has_exp \/ tms_store[k].exp > Now
        /\ tms_out = trust_marks_from_abfile(SelectSeq(tms_store, WellFormed),
                                             tms_by_issuer, tms_expected_sub)

\* a malformed entry stored between two marks, one of them returned
C21_Witness ==
    /\ TMSReturned
    /\ Len(tms_store) = 3
    /\ tms_store[2].malformed
    /\ tms_store[1].jws = "expired"
    /\ Len(tms_out) = 1 /\ tms_out[1].trust_mark = "older"

\* the orders in which a store of n entries can be yielded
Orders(n) == {p \in [1..n -> 1..n] : \A a, b \in 1..n : a # b => p[a] # p[b]}
YieldedAs(p) == [k \in 1..Len(tms_store) |-> tms_store[p[k]]]

\* C22 (as claimed): the list returned is the one returned for the same entries
\* yielded in any other order, with the same clock and configuration.
C22_OrderIndependent ==
    TMSReturned =>
        \A p \in Orders(Len(tms_store)) :
            trust_marks_from_abfile(YieldedAs(p), tms_by_issuer, tms_expected_sub)
                = tms_out

EmptyIssuersList ==
    /\ tm_pc = "done" /\ tm_tas.fetched
    /\ tm_tas.has_issuers /\ IssuersEntry.has /\ IssuersEntry.issuers = <<>>

\* C25 (as claimed): with an empty trust_mark_issuers list for the mark's type the
\* verifier returns None.
C25_EmptyListRejects == EmptyIssuersList => tm_result = "None"

\* C25 (amended): an empty trust_mark_issuers list for the mark's type admits every
\* issuer: the call does not end at the issuer-recognition step, and gives None
\* only when a delegation check fails, no verified chain of the issuer ends at the
\* anchor, or the mark's signature does not verify.
C25_EmptyListAdmitsAnyIssuer ==
    EmptyIssuersList =>
        \/ tm_stopped = "signature" /\ tm_result = "mark"
        \/ tm_stopped = "delegation" /\ tm_mark.delegation.has
        \/ tm_stopped = "chains" /\ ~InSeq(TM_TA, tm_chains.anchors)
        \/ tm_stopped = "signature" /\ InSeq(TM_TA, tm_chains.anchors)

\* the mark of the named issuer, not delegated, verified under an empty list
C25_Witness ==
    /\ EmptyIssuersList
    /\ tm_mark.iss = TMI /\ ~tm_mark.delegation.has
    /\ tm_chains.anchors = <<TM_TA2, TM_TA>>
    /\ tm_result = "mark"

\* C26 (as claimed): a mark without delegation whose type has an owner in the
\* anchor's trust_mark_owners gives None, and no trust chain of the mark's issuer
\* is looked for.
C26_UndelegatedOwnedRejected ==
    (tm_pc = "done" /\ tm_tas.fetched /\ ~tm_mark.delegation.has /\ Owner.has) =>
        /\ tm_result = "None"
        /\ ~tm_chains.collected

\* what the structural and expiry check asks of the mark
StructurallyValid ==
    /\ ~tm_mark.expired
    /\ tm_mark.delegation.has =>
          /\ ~tm_mark.delegation.expired
          /\ tm_mark.delegation.sub = tm_mark.iss
          /\ tm_mark.delegation.trust_mark_id = tm_mark.trust_mark_id

IssuerAdmitted ==
    /\ tm_tas.fetched /\ tm_tas.has_issuers /\ IssuersEntry.has
    /\ IssuersEntry.issuers = <<>> \/ InSeq(tm_mark.iss, IssuersEntry.issuers)

\* C27: the anchor's configuration is read only for a mark that passed the
\* structural and expiry check; the delegation's signature is tried only after the
\* issuer was recognized; the chains of the mark's issuer are collected only after
\* those checks and, for a mark with delegation, the delegation checks have
\* passed; the mark's signature is checked only after a chain to trust_anchor was
\* found; and a call that ended at one step has done nothing of the later ones.
C27_StepsInOrder ==
    /\ tm_tas.fetched => StructurallyValid
    /\ tm_deleg_sig # "untried" => IssuerAdmitted
    /\ tm_chains.collected =>
          /\ StructurallyValid
          /\ IssuerAdmitted
          /\ tm_mark.delegation.has =>
                /\ Owner.has /\ Owner.sub = tm_mark.delegation.iss
                /\ tm_deleg_sig = "verified"
    /\ (tm_pc = "signature" \/ tm_stopped = "signature") =>
          tm_chains.collected /\ InSeq(TM_TA, tm_chains.anchors)
    /\ tm_stopped = "verify" =>
          ~tm_tas.fetched /\ tm_deleg_sig = "untried" /\ ~tm_chains.collected
    /\ tm_stopped = "issuers" => tm_deleg_sig = "untried" /\ ~tm_chains.collected
    /\ tm_stopped = "delegation" => ~tm_chains.collected

\* a call that ended where the delegation's signature failed
C27_Witness ==
    /\ tm_pc = "done" /\ tm_stopped = "delegation"
    /\ tm_deleg_sig = "failed"
    /\ ~tm_chains.collected

----------------------------------------------------------------------------
(* Properties of EntityStatement.verify and Policy.verify *)

Verified(method) == es_pc = "verified" /\ es_called = method

\* crit lists a claim the statement carries that is neither native (no extra claim
\* is) nor a known extension
UnknownCritical ==
    /\ es_statement.has_crit
    /\ \E c \in es_statement.crit :
          c \in es_statement.extra /\ c \notin es_kwargs.known_extensions.names

\* every entry of a crit that has entries is native or a known extension
CritUnderstood ==
    /\ es_statement.has_crit /\ es_statement.crit # {}
    /\ \A c \in es_statement.crit :
          c = NativeClaim \/ c \in es_kwargs.known_extensions.names

\* C23 (as claimed): a statement without a metadata policy is rejected with
\* UnknownCriticalExtension exactly when its crit lists a claim it carries that is
\* neither native nor a known extension, and is accepted when every crit entry is
\* understood.
C23_CritRejectsUnknownOnly ==
    (Verified("EntityStatement.verify") /\ es_statement.metadata_policy = <<>>) =>
        /\ es_result = "UnknownCriticalExtension" <=> UnknownCritical
        /\ CritUnderstood => es_result = "ok"

\* the policy verified uses a verb outside c_param that policy_language_crit lists
\* and known_policy_extensions does not
CriticalVerbUnknown ==
    /\ es_statement.has_policy_language_crit
    /\ \E v \in es_statement.metadata_policy[1] :
          /\ v \in es_statement.policy_language_crit
          /\ v \notin es_kwargs.known_policy_extensions.names

\* C24 (as claimed): Policy.verify raises UnknownCriticalExtension exactly when
\* the policy uses a non-standard verb that policy_language_crit lists and
\* known_policy_extensions does not; a policy none of whose non-standard verbs is
\* listed in a policy_language_crit that has entries is accepted.
C24_PolicyRejectsCriticalOnly ==
    Verified("Policy.verify") =>
        /\ es_result = "UnknownCriticalExtension" <=> CriticalVerbUnknown
        /\ (/\ es_statement.has_policy_language_crit
            /\ es_statement.policy_language_crit # {}
            /\ es_statement.metadata_policy[1] \cap es_statement.policy_language_crit = {})
              => es_result = "ok"

----------------------------------------------------------------------------
(* Properties of FederationEntity *)

\* C28 (as claimed): get_trust_chains never returns a chain whose exp is earlier
\* than the current time.
C28_NoExpiredChainReturned ==
    [][(\E entity_id \in FEEntities : FEGetTrustChains(entity_id)) =>
           \A k \in 1..Len(fe_out') : fe_out'[k].exp >= fe_now']_vars

\* the candidate the claim names: the first one anchored at the first entry of
\* tr_priority that is some candidate's anchor, the first candidate when none is
Ranked(candidates, priority) ==
    {i \in 1..Len(priority) :
        \E k \in 1..Len(candidates) : candidates[k].anchor = priority[i]}

Least(S) == CHOOSE x \in S : \A y \in S : x <= y

Expected(candidates, priority) ==
    IF Ranked(candidates, priority) = {} THEN candidates[1]
    ELSE candidates[Least({k \in 1..Len(candidates) :
             candidates[k].anchor = priority[Least(Ranked(candidates, priority))]})]

\* C29 (as claimed): with several candidates and tr_priority set, both
\* pick_trust_chain and pick_from_stored_trust_chains return the candidate whose
\* anchor comes first in tr_priority, and the first candidate when no candidate's
\* anchor is in tr_priority.
C29_PickedByPriority ==
    (/\ fe_pc = "returned"
     /\ fe_call.method \in {"pick_trust_chain", "pick_from_stored_trust_chains"}
     /\ Len(fe_call.trust_chains) >= 2
     /\ tr_priority # <<>>)
        => fe_out = <<Expected(fe_call.trust_chains, tr_priority)>>

----------------------------------------------------------------------------
(* Properties of more_specific *)

\* C30 (as claimed): for http(s) URLs more_specific(a, b) holds exactly when the
\* parts of b are a suffix of the parts of a, a leading empty part of b standing
\* for any remaining parts of a; it is false when a has fewer parts than b and
\* true when a equals b.
C30_MoreSpecificIsSuffix ==
    (ms_pc = "more_specific" /\ has_http_scheme(ms_a) /\ has_http_scheme(ms_b)) =>
        /\ ms_result = "True" <=> SuffixCovers(ms_b, ms_a)
        /\ Len(ms_a.rest) < Len(ms_b.rest) => ms_result = "False"
        /\ ms_a.rest = ms_b.rest => ms_result = "True"

----------------------------------------------------------------------------
(* script/trust_mark_type_to_abfile.py: main, one or two runs on one store *)

MaxWork  == 2      \* (issuer, trust mark id) pairs in the source of the first run
MaxOther == 1      \* pairs in the source of a second run started meanwhile

ABIssuers == {"https://tmi1.example.org", "https://tmi2.example.org"}
ABMarkIds == {"https://tm.example.org/a", "https://tm.example.org/b"}

\* AbstractFileSystem: get(key, default), __setitem__, __delitem__
store_get(store, key, default) == IF key \in DOMAIN store THEN store[key] ELSE default

store_set(store, key, value) ==
    [k \in DOMAIN store \cup {key} |-> IF k = key THEN value ELSE store[k]]

store_del(store, key) == [k \in DOMAIN store \ {key} |-> store[k]]

\* issuer in current
listed(issuer, current) == \E n \in 1..Len(current) : current[n] = issuer

\* [i for i in current if i != issuer]
next_list(current, issuer) == SelectSeq(current, LAMBDA i : i # issuer)

NoEffect(store) == [store |-> store, changes |-> 0, would_be_empty |-> <<>>]

\* lines 43-55: the --remove branch; the store is written only within
\* "if not next_list", after the delete or the note in would_be_empty
remove_issuer(store, drop_empty, issuer, tm_id, current) ==
    IF listed(issuer, current) /\ next_list(current, issuer) = <<>>
    THEN [store |-> store_set(IF drop_empty THEN store_del(store, tm_id) ELSE store,
                              tm_id, next_list(current, issuer)),
          changes |-> IF drop_empty THEN 2 ELSE 1,
          would_be_empty |-> IF drop_empty THEN <<>> ELSE <<tm_id>>]
    ELSE NoEffect(store)

\* lines 56-60
add_issuer(store, issuer, tm_id, current) ==
    IF ~listed(issuer, current)
    THEN [store |-> store_set(store, tm_id, Append(current, issuer)),
          changes |-> 1, would_be_empty |-> <<>>]
    ELSE NoEffect(store)

\* lines 43-60: the body of the inner loop after store.get
loop_body(store, run, pair) ==
    IF run.remove
    THEN remove_issuer(store, run.drop_empty, pair.issuer, pair.tm_id, run.current)
    ELSE add_issuer(store, pair.issuer, pair.tm_id, run.current)

\* issuer lists a store can hold
IssuerLists == {l \in SeqsUpTo(ABIssuers, 2) : \A j, k \in 1..Len(l) : l[j] = l[k] => j = k}

ABStores == UNION {[ids -> IssuerLists] : ids \in SUBSET ABMarkIds}

ABPairs == [issuer : ABIssuers, tm_id : ABMarkIds]

\* data.items() walked issuer by issuer: the pairs of one issuer are adjacent
Sources(n) ==
    {w \in SeqsUpTo(ABPairs, n) :
        \A j, l \in 1..Len(w) : \A k \in j..l :
            w[j].issuer = w[l].issuer => w[k].issuer = w[j].issuer}

Runs == {1, 2}

ABRun(remove, drop_empty, work) ==
    [remove |-> remove, drop_empty |-> drop_empty, work |-> work, i |-> 0,
     pc |-> IF work = <<>> THEN "done" ELSE "read",
     current |-> <<>>, changes |-> 0, would_be_empty |-> <<>>]

ABRuns(n) == {ABRun(r, d, w) : r \in BOOLEAN, d \in BOOLEAN, w \in Sources(n)}

\* line 42: current = store.get(tm_id, [])
ABRead(p) ==
    /\ ab_run[p].pc = "read"
    /\ ab_run' = [ab_run EXCEPT ![p] =
           [ab_run[p] EXCEPT !.pc = "write",
              !.current = store_get(ab_store, ab_run[p].work[ab_run[p].i + 1].tm_id, <<>>)]]
    /\ ab_before' = ab_store
    /\ UNCHANGED <<ab_store, not_ab>>

ABWriteTo(p, run, effect) ==
    /\ ab_store' = effect.store
    /\ ab_run' = [ab_run EXCEPT ![p] =
           [run EXCEPT !.i = run.i + 1,
              !.pc = IF run.i + 1 = Len(run.work) THEN "done" ELSE "read",
              !.changes = run.changes + effect.changes,
              !.would_be_empty = run.would_be_empty \o effect.would_be_empty]]

\* lines 43-60: the rest of the iteration
ABWrite(p) ==
    /\ ab_run[p].pc = "write"
    /\ ABWriteTo(p, ab_run[p],
                 loop_body(ab_store, ab_run[p], ab_run[p].work[ab_run[p].i + 1]))
    /\ UNCHANGED <<ab_before, not_ab>>

InitAB ==
    /\ ab_store \in ABStores
    /\ ab_run \in {<<r1, r2>> : r1 \in ABRuns(MaxWork) \ ABRuns(0), r2 \in ABRuns(MaxOther)}
    /\ ab_before = ab_store
    /\ ConstraintsOff
    /\ VerifierOff
    /\ TrustMarkOff
    /\ ResolveOff
    /\ TrustMarksSourceOff
    /\ MessageOff
    /\ EntityOff
    /\ MoreSpecificOff
    /\ FileDBOff
    /\ SimpleDBOff
    /\ VerifyTrustMarkOff

NextAB == \E p \in Runs : ABRead(p) \/ ABWrite(p)

SpecAB == InitAB /\ [][NextAB]_vars

----------------------------------------------------------------------------
(* trust_mark_entity/__init__.py: FileDB *)

MaxLines == 3      \* lines in the files of a FileDB, all types together

DBTypes == {TmtType, TmtOther}
DBSubs  == {"https://rp.example.org", "https://op.example.org"}
DBIats  == {1, 2}

\* 'exp' of a tm_info: absent, passed at Now, or still ahead
DBExps == {<<>>, <<Now - 5>>, <<Now + 10>>}

TmInfos == [trust_mark_type : DBTypes, sub : DBSubs, iat : DBIats, exp : DBExps]

DBCall(method, trust_mark_type, sub, iat) ==
    [method |-> method, trust_mark_type |-> trust_mark_type, sub |-> sub, iat |-> iat]

\* FileDB._match
_match(sub, iat, tmi) == sub = tmi.sub /\ (iat # 0 => iat = tmi.iat)

\* FileDB.find, lines 33-46: the lines of the file from the last to the first
RECURSIVE find_walk(_, _, _, _)
find_walk(lines, k, sub, iat) ==
    IF k = 0 THEN FALSE
    ELSE IF lines[k].exp # <<>> /\ Now > lines[k].exp[1] THEN FALSE
    ELSE IF _match(sub, iat, lines[k]) THEN TRUE
    ELSE find_walk(lines, k - 1, sub, iat)

FileDB_find(files, trust_mark_type, sub, iat) ==
    find_walk(files[trust_mark_type], Len(files[trust_mark_type]), sub, iat)

\* FileDB.add: one line appended to the file of the type
FileDB_add(files, tm_info) ==
    [t \in DOMAIN files |->
        IF t = tm_info.trust_mark_type THEN Append(files[t], tm_info) ELSE files[t]]

RECURSIVE total_lines(_, _)
total_lines(files, types) ==
    IF types = {} THEN 0
    ELSE Len(files[CHOOSE t \in types : TRUE])
             + total_lines(files, types \ {CHOOSE t \in types : TRUE})

FDBAdd(tm_info) ==
    /\ total_lines(fdb_files, DBTypes) < MaxLines
    /\ fdb_files' = FileDB_add(fdb_files, tm_info)
    /\ fdb_call' = DBCall("add", tm_info.trust_mark_type, tm_info.sub, tm_info.iat)
    /\ fdb_out' = "none"
    /\ UNCHANGED not_fdb

FDBFind(trust_mark_type, sub, iat) ==
    /\ fdb_call' = DBCall("find", trust_mark_type, sub, iat)
    /\ fdb_out' = truth(FileDB_find(fdb_files, trust_mark_type, sub, iat))
    /\ UNCHANGED <<fdb_files, not_fdb>>

\* FileDB.__init__: every configured file exists, new ones are empty
InitFDB ==
    /\ fdb_files = [t \in DBTypes |-> <<>>]
    /\ fdb_call = DBCall("", "", "", 0)
    /\ fdb_out = "none"
    /\ ConstraintsOff
    /\ VerifierOff
    /\ TrustMarkOff
    /\ ResolveOff
    /\ TrustMarksSourceOff
    /\ MessageOff
    /\ EntityOff
    /\ MoreSpecificOff
    /\ ScriptOff
    /\ SimpleDBOff
    /\ VerifyTrustMarkOff

NextFDB ==
    \/ \E tm_info \in TmInfos : FDBAdd(tm_info)
    \/ \E t \in DBTypes, sub \in DBSubs, iat \in {0} \cup DBIats : FDBFind(t, sub, iat)

SpecFDB == InitFDB /\ [][NextFDB]_vars

----------------------------------------------------------------------------
(* trust_mark_entity/__init__.py: SimpleDB *)

SDBInfos == [trust_mark_type : DBTypes, sub : DBSubs, iat : DBIats]

\* SimpleDB.add, lines 99-103: a type already held has a dict as its value, and
\* a dict has no append
SimpleDB_add(_db, tm_info) ==
    IF tm_info.trust_mark_type \in DOMAIN _db
    THEN [_db |-> _db, out |-> "AttributeError"]
    ELSE [_db |-> store_set(_db, tm_info.trust_mark_type,
                            [s \in {tm_info.sub} |-> tm_info]),
          out |-> "ok"]

\* SimpleDB.find, lines 112-121
SimpleDB_find(_db, trust_mark_type, sub, iat) ==
    IF trust_mark_type \notin DOMAIN _db THEN "KeyError"
    ELSE IF sub \notin DOMAIN _db[trust_mark_type] THEN "False"
    ELSE truth(iat # 0 => iat = _db[trust_mark_type][sub].iat)

SDBAddTo(tm_info, effect) ==
    /\ sdb_db' = effect._db
    /\ sdb_out' = effect.out
    /\ sdb_added' = sdb_added \cup {<<tm_info.trust_mark_type, tm_info.sub>>}
    /\ sdb_call' = DBCall("add", tm_info.trust_mark_type, tm_info.sub, tm_info.iat)

SDBAdd(tm_info) ==
    /\ SDBAddTo(tm_info, SimpleDB_add(sdb_db, tm_info))
    /\ UNCHANGED not_sdb

SDBFind(trust_mark_type, sub, iat) ==
    /\ sdb_call' = DBCall("find", trust_mark_type, sub, iat)
    /\ sdb_out' = SimpleDB_find(sdb_db, trust_mark_type, sub, iat)
    /\ UNCHANGED <<sdb_db, sdb_added, not_sdb>>

\* SimpleDB.__init__
InitSDB ==
    /\ sdb_db = <<>>
    /\ sdb_added = {}
    /\ sdb_call = DBCall("", "", "", 0)
    /\ sdb_out = "none"
    /\ ConstraintsOff
    /\ VerifierOff
    /\ TrustMarkOff
    /\ ResolveOff
    /\ TrustMarksSourceOff
    /\ MessageOff
    /\ EntityOff
    /\ MoreSpecificOff
    /\ ScriptOff
    /\ FileDBOff
    /\ VerifyTrustMarkOff

NextSDB ==
    \/ \E tm_info \in SDBInfos : SDBAdd(tm_info)
    \/ \E t \in DBTypes, sub \in DBSubs, iat \in {0} \cup DBIats : SDBFind(t, sub, iat)

SpecSDB == InitSDB /\ [][NextSDB]_vars

----------------------------------------------------------------------------
(* entity/__init__.py: FederationEntity.verify_trust_mark *)

MaxTmiChains == 2      \* trust chains known for the issuer of a trust mark

\* a trust chain of the issuer: its anchor, and whether its federation_entity
\* metadata names a federation_trust_mark_status_endpoint
TmiChains == [anchor : {TM_TA, TM_TA2}, has_endpoint : BOOLEAN]

VTMarks == [iss : {TMI, TMX}, sub : {RS_SUB}, trust_mark_type : DBTypes]

\* the status response: a dict with or without 'active'
StatusResponses ==
    {[has_active |-> FALSE, active |-> FALSE],
     [has_active |-> TRUE, active |-> FALSE],
     [has_active |-> TRUE, active |-> TRUE]}

\* lines 380-390: the arguments of do_request are read in order, the verified
\* mark first, then the response is judged
check_with_issuer_step(verified, chain, resp) ==
    IF verified = "None" THEN "TypeError"
    ELSE IF ~chain.has_endpoint THEN "KeyError"
    ELSE IF resp.has_active /\ resp.active THEN verified
    ELSE "None"

\* lines 365-392
verify_trust_mark(check_with_issuer, chains, verified, resp) ==
    IF chains = <<>> THEN "None"
    ELSE IF verified \notin {"None", "mark"} THEN verified
    ELSE IF check_with_issuer THEN check_with_issuer_step(verified, chains[1], resp)
    ELSE verified

VTCall ==
    /\ vt_pc = "called"
    /\ vt_result' = verify_trust_mark(vt_check_with_issuer, vt_chains, vt_verifier, vt_resp)
    /\ vt_pc' = "done"
    /\ UNCHANGED <<vt_mark, vt_check_with_issuer, vt_chains, vt_verifier, vt_resp, not_vt>>

InitVT ==
    /\ vt_mark \in VTMarks
    /\ vt_check_with_issuer \in BOOLEAN
    /\ vt_chains \in SeqsUpTo(TmiChains, MaxTmiChains)
    /\ vt_verifier \in {"None", "mark", "ValueError"}
    /\ vt_resp \in StatusResponses
    /\ vt_pc = "called"
    /\ vt_result = "pending"
    /\ ConstraintsOff
    /\ VerifierOff
    /\ TrustMarkOff
    /\ ResolveOff
    /\ TrustMarksSourceOff
    /\ MessageOff
    /\ EntityOff
    /\ MoreSpecificOff
    /\ ScriptOff
    /\ FileDBOff
    /\ SimpleDBOff

NextVT == VTCall

SpecVT == InitVT /\ [][NextVT]_vars

----------------------------------------------------------------------------
(* Further properties of TrustChainVerifier *)

\* C33 (as claimed): a call that accepts no chain leaves the key jar as it was
\* when the call started.
C33_RejectedLeavesKeyring ==
    (Returned /\ v_out.chains = <<>>) => keyjar = v_keyjar0

----------------------------------------------------------------------------
(* Further properties of meets_restrictions *)

\* C34 (as claimed): a chain none of whose statements sets max_path_length is not
\* rejected for its path length: the walk never ends with a negative
\* current_max_path_length, and a rejection of such a chain is one where a subject
\* breaks the naming constraints in force.
C34_NoPathLengthNoRejection ==
    (mr_pc = "done" /\ \A k \in 1..(Len(mr_chain) - 1) : ~SetsMpl(k)) =>
        /\ current_max_path_length >= 0
        /\ mr_result = "False" =>
              \/ mr_i < Len(mr_chain) - 1 /\ ~NamingRespected(mr_chain[mr_i].sub, mr_seen[mr_i])
              \/ ~NamingRespected(mr_chain[Len(mr_chain)].sub, naming_constraints)

\* C35 (as claimed): in an accepted chain every subject, the leaf included, keeps
\* to the naming constraints in force at every statement above it: it is covered
\* by no suffix excluded there and, where the permitted set there is non-empty, by
\* an entry of it.
C35_NamingMonotone ==
    Accepted =>
        \A k \in 1..(Len(mr_chain) - 1) : \A j \in k..Len(mr_chain) :
            NamingRespected(mr_chain[j].sub, mr_seen[k])

(* Further properties of Resolve.process_request *)
\* C39 (as claimed): the payload of the resolve response has the sub of the
\* resolve request as its sub and the resolver's own entity id as its iss.
C39_ResponseSubIsRequested ==
    rs_result = "response" =>
        /\ rs_response.payload.sub = rs_request.sub
        /\ rs_response.payload.iss = RS_SELF

(* Properties of trust_mark_type_to_abfile *)

\* no other run of the script works on the store
Sole(p) == \A q \in Runs \ {p} : ab_run[q].work = <<>>

\* run p has just finished an iteration of the inner loop
JustDone(p) == ab_run[p].i > 0 /\ ab_run[p].pc # "write"

\* the pair of that iteration
LastPair(p) == ab_run[p].work[ab_run[p].i]

\* C31 (as claimed): when a run with --remove takes the last issuer off the list
\* of a trust mark id, the key is gone from the store if --drop-empty is set,
\* and otherwise the store is as it was; no empty list is stored.
C31_NoEmptyListStored ==
    (Sole(1) /\ JustDone(1) /\ ab_run[1].remove
       /\ listed(LastPair(1).issuer, ab_run[1].current)
       /\ next_list(ab_run[1].current, LastPair(1).issuer) = <<>>) =>
        IF ab_run[1].drop_empty
        THEN LastPair(1).tm_id \notin DOMAIN ab_store
        ELSE ab_store = ab_before

\* C32 (as claimed): when two runs without --remove have both ended, and they
\* added different issuers to the same trust mark id, both issuers are in the
\* list stored under that id.
C32_ConcurrentAddsBothStored ==
    (\A p \in Runs : ab_run[p].pc = "done" /\ ~ab_run[p].remove) =>
        \A j \in 1..Len(ab_run[1].work) : \A k \in 1..Len(ab_run[2].work) :
            (/\ ab_run[1].work[j].tm_id = ab_run[2].work[k].tm_id
             /\ ab_run[1].work[j].issuer # ab_run[2].work[k].issuer) =>
                /\ listed(ab_run[1].work[j].issuer,
                          store_get(ab_store, ab_run[1].work[j].tm_id, <<>>))
                /\ listed(ab_run[2].work[k].issuer,
                          store_get(ab_store, ab_run[1].work[j].tm_id, <<>>))

\* C38 (as claimed): a run with --remove that finds the issuer and another
\* issuer in the stored list stores the list without that issuer, the others
\* kept; a run without --remove that finds the issuer in the list leaves the
\* store as it was.
C38_RemoveKeepsOthers ==
    (Sole(1) /\ JustDone(1) /\ listed(LastPair(1).issuer, ab_run[1].current)) =>
        /\ (ab_run[1].remove /\ next_list(ab_run[1].current, LastPair(1).issuer) # <<>>) =>
               ab_store = store_set(ab_before, LastPair(1).tm_id,
                                    next_list(ab_run[1].current, LastPair(1).issuer))
        /\ ~ab_run[1].remove => ab_store = ab_before

(* Properties of FileDB and SimpleDB *)

\* the file of the type holds an entry for sub that has not expired, with the
\* given iat when one is given
HoldsValid(files, trust_mark_type, sub, iat) ==
    \E k \in 1..Len(files[trust_mark_type]) :
        /\ files[trust_mark_type][k].sub = sub
        /\ iat # 0 => files[trust_mark_type][k].iat = iat
        /\ files[trust_mark_type][k].exp # <<>> => Now <= files[trust_mark_type][k].exp[1]

\* C36 (as claimed): find returns True exactly when the file of the type holds
\* a non-expired entry for sub, with the given iat when iat is given, whatever
\* was added for other subjects.
C36_FindIffValidEntry ==
    fdb_call.method = "find" =>
        (fdb_out = "True" <=>
            HoldsValid(fdb_files, fdb_call.trust_mark_type, fdb_call.sub, fdb_call.iat))

\* C37 (as claimed): no add call raises, and find without iat returns True for
\* every (trust_mark_type, sub) that add was called with.
C37_AddSucceedsFindTrue ==
    /\ sdb_call.method = "add" => sdb_out = "ok"
    /\ (/\ sdb_call.method = "find" /\ sdb_call.iat = 0
        /\ <<sdb_call.trust_mark_type, sdb_call.sub>> \in sdb_added) => sdb_out = "True"

(* Properties of FederationEntity.verify_trust_mark *)

\* C40 (as claimed): when the trust mark verifier gives None the call returns
\* None, with check_with_issuer set or not; with check_with_issuer set the mark
\* is returned only when the status response has active equal to true.
C40_NoneWhenNotVerified ==
    vt_pc = "done" =>
        /\ (vt_chains # <<>> /\ vt_verifier = "None") => vt_result = "None"
        /\ (vt_check_with_issuer /\ vt_result = "mark") =>
               vt_resp.has_active /\ vt_resp.active

====
